---- MODULE Spec2Model ----
(***************************************************************************)
(* Model of the two-way reconciliation engine between the remote record    *)
(* service (CRM) and the spreadsheet: scripts/sync_engine.py together with *)
(* the value codec and the sheet operations of scripts/excel_handler.py.   *)
(***************************************************************************)
EXTENDS Integers, Sequences, FiniteSets, TLC

(***************************************************************************)
(* State                                                                   *)
(***************************************************************************)
VARIABLES
    strategy,   \* CONFLICT_STRATEGY
    crm,        \* the remote service: object -> list of records
    sheet,      \* the workbook: object -> rows of its sheet
    state,      \* SyncEngine.state: object -> (id -> marker)
    stateFile,  \* the content of the state file
    stats,      \* SyncEngine.stats: object -> counters
    pc,         \* "idle"; "sync_all", "pull" or "push" while one runs; "saving"
                \* while the state file is being written; "done" (returned),
                \* "raised" or "killed"
    idx,        \* position in SYNC_OBJECTS of the next object to process
    clock,      \* the time of the remote service
    nextId,     \* the number of the next id the remote service assigns
    last,       \* object -> the pass made on it in the running operation
    args,       \* the two records handed to _resolve_conflict, when called alone
    winner,     \* what that call gave: "crm", "excel", an error, or "unset"
    again,      \* the running sync_all follows a completed one, nothing edited
    _shutdown,  \* the flag of main.py that _handle_signal sets
    slept,      \* the sleep increments taken since the last scheduled pass
    caught,     \* where the scheduler was when the signal arrived, or "none"
    cycles      \* the scheduled passes started so far

vars ==
    <<strategy, crm, sheet, state, stateFile, stats, pc, idx, clock, nextId, last,
      args, winner, again, _shutdown, slept, caught, cycles>>

\* the variables of the scheduler of main.py
sched == <<_shutdown, slept, caught, cycles>>

\* no scheduler runs: the commands sync, pull and push
NoSchedule == _shutdown = FALSE /\ slept = 0 /\ caught = "none" /\ cycles = 0

(***************************************************************************)
(* Python values.  Every value is a record [k, t, n, d]:                   *)
(*   k = "none"   None                                                     *)
(*   k = "str"    a str, t its text as a sequence of tokens                *)
(*   k = "int"    an int n                                                 *)
(*   k = "float"  a float, n its value in millionths                       *)
(*   k = "dt"     a naive datetime object (a date cell), n its instant     *)
(*   k = "dict"   a dict, d a function from its keys to values             *)
(*   k = "raise"  not a value: the evaluation raised, t names the error    *)
(* A token is a record [c, w, n, d]: a word without whitespace ("w"), one  *)
(* space ("sp"), the text of an int ("i"), of a float ("f"), of a naive    *)
(* datetime ("t"), of a dict ("r"), an ISO-8601 instant ending in Z        *)
(* ("isoz"), ending in +00:00 ("isoo") or without offset ("iso").          *)
(***************************************************************************)
Tok(c, w, n, d) == [c |-> c, w |-> w, n |-> n, d |-> d]
W(w) == Tok("w", w, 0, <<>>)
SP == Tok("sp", " ", 0, <<>>)
ITok(n) == Tok("i", "", n, <<>>)
FTok(n) == Tok("f", "", n, <<>>)
TTok(n) == Tok("t", "", n, <<>>)
RTok(d) == Tok("r", "", 0, d)
IsoZTok(n) == Tok("isoz", "", n, <<>>)
IsoOffTok(n) == Tok("isoo", "", n, <<>>)
IsoTok(n) == Tok("iso", "", n, <<>>)

Val(k, t, n, d) == [k |-> k, t |-> t, n |-> n, d |-> d]
NoneV == Val("none", <<>>, 0, <<>>)
Text(t) == Val("str", t, 0, <<>>)
S(w) == Text(<<W(w)>>)
EmptyStr == Text(<<>>)
IntV(n) == Val("int", <<>>, n, <<>>)
FloatV(n) == Val("float", <<>>, n, <<>>)
DtV(n) == Val("dt", <<>>, n, <<>>)
DictV(d) == Val("dict", <<>>, 0, d)
Raise(e) == Val("raise", <<W(e)>>, 0, <<>>)
IsoZ(n) == Text(<<IsoZTok(n)>>)
IsoOff(n) == Text(<<IsoOffTok(n)>>)
Iso(n) == Text(<<IsoTok(n)>>)

IsRaise(v) == v.k = "raise"
IsDict(v) == v.k = "dict"
IsStr(v) == v.k = "str"

\* bool(v)
Truthy(v) ==
    CASE v.k = "none" -> FALSE
      [] v.k = "str" -> v.t # <<>>
      [] v.k \in {"int", "float"} -> v.n # 0
      [] v.k = "dict" -> DOMAIN v.d # {}
      [] OTHER -> TRUE

\* str(v)
PyStr(v) ==
    CASE v.k = "none" -> S("None")
      [] v.k = "str" -> v
      [] v.k = "int" -> Text(<<ITok(v.n)>>)
      [] v.k = "float" -> Text(<<FTok(v.n)>>)
      [] v.k = "dt" -> Text(<<TTok(v.n)>>)
      [] OTHER -> Text(<<RTok(v.d)>>)

RECURSIVE LStrip(_)
LStrip(t) == IF t # <<>> /\ Head(t) = SP THEN LStrip(Tail(t)) ELSE t

RECURSIVE RStrip(_)
RStrip(t) ==
    IF t # <<>> /\ t[Len(t)] = SP THEN RStrip(SubSeq(t, 1, Len(t) - 1)) ELSE t

\* s.strip()
Strip(s) == Text(RStrip(LStrip(s.t)))

\* d.get(key, default)
Get(d, key, default) == IF key \in DOMAIN d THEN d[key] ELSE default

\* x or ""
OrEmpty(v) == IF Truthy(v) THEN v ELSE EmptyStr

\* first position of a space in t, 0 when there is none
RECURSIVE FirstSpace(_, _)
FirstSpace(t, i) ==
    IF i > Len(t) THEN 0 ELSE IF t[i] = SP THEN i ELSE FirstSpace(t, i + 1)

\* s.split(" ", 1)
SplitAt(s, i) ==
    IF i = 0 THEN <<s>>
    ELSE <<Text(SubSeq(s.t, 1, i - 1)), Text(SubSeq(s.t, i + 1, Len(s.t)))>>

Split1(s) == SplitAt(s, FirstSpace(s.t, 1))

(***************************************************************************)
(* Value codec: scripts/excel_handler.py                                   *)
(***************************************************************************)

\* ", ".join(p for p in parts if p); a truthy part that is no str raises
RECURSIVE JoinParts(_, _)
JoinParts(parts, acc) ==
    IF parts = <<>> THEN Text(acc)
    ELSE IF ~Truthy(Head(parts)) THEN JoinParts(Tail(parts), acc)
    ELSE IF ~IsStr(Head(parts)) THEN Raise("TypeError")
    ELSE JoinParts(Tail(parts),
                   IF acc = <<>> THEN Head(parts).t
                   ELSE acc \o <<W(","), SP>> \o Head(parts).t)

AddressKeys ==
    <<"addressStreet1", "addressStreet2", "addressCity", "addressState",
      "addressPostcode", "addressCountry">>

\* value["amountMicros"] / 1_000_000
DivMillion(v) ==
    CASE v.k = "int" -> FloatV(v.n)
      [] v.k = "float" /\ v.n % 1000000 = 0 -> FloatV(v.n \div 1000000)
      [] v.k \in {"none", "str", "dt", "dict"} -> Raise("TypeError")

\* f"{first} {last}".strip()
NameText(first, last_name) ==
    Strip(Text(PyStr(first).t \o <<SP>> \o PyStr(last_name).t))

FlattenName(value) ==
    NameText(OrEmpty(Get(value.d, "firstName", EmptyStr)),
             OrEmpty(Get(value.d, "lastName", EmptyStr)))

\* the shape of a dict, by the first of the sniffed keys it carries
ShapeOf(d) ==
    IF "firstName" \in DOMAIN d \/ "lastName" \in DOMAIN d THEN "name"
    ELSE IF "primaryEmail" \in DOMAIN d THEN "email"
    ELSE IF "primaryPhoneNumber" \in DOMAIN d THEN "phone"
    ELSE IF "primaryLinkUrl" \in DOMAIN d THEN "link"
    ELSE IF "primaryLinkLabel" \in DOMAIN d THEN "label"
    ELSE IF "amountMicros" \in DOMAIN d THEN "currency"
    ELSE IF "addressStreet1" \in DOMAIN d THEN "address"
    ELSE "unknown"

FlattenShape(value, shape) ==
    CASE shape = "name" -> FlattenName(value)
      [] shape = "email" -> value.d["primaryEmail"]
      [] shape = "phone" -> value.d["primaryPhoneNumber"]
      [] shape = "link" -> value.d["primaryLinkUrl"]
      [] shape = "label" -> value.d["primaryLinkLabel"]
      [] shape = "currency" -> DivMillion(value.d["amountMicros"])
      [] shape = "address" ->
            JoinParts([i \in 1..Len(AddressKeys) |->
                          Get(value.d, AddressKeys[i], EmptyStr)], <<>>)
      [] OTHER -> PyStr(value)

_flatten_value(value) ==
    IF ~IsDict(value) THEN value ELSE FlattenShape(value, ShapeOf(value.d))

\* float(value): [k |-> "float", n] in millionths, or the error raised
\* float(s) of the text t, stripped
FloatOfText(t) ==
    IF Len(t) = 1 /\ t[1].c = "f" THEN FloatV(t[1].n)
    ELSE IF Len(t) = 1 /\ t[1].c = "i" THEN FloatV(t[1].n * 1000000)
    ELSE IF Len(t) = 1 /\ t[1] \in {W("inf"), W("nan")} THEN Val("float", t, 0, <<>>)
    ELSE Raise("ValueError")

ToFloat(value) ==
    CASE value.k = "float" -> value
      [] value.k = "int" -> FloatV(value.n * 1000000)
      [] value.k = "str" -> FloatOfText(Strip(value).t)
      [] OTHER -> Raise("TypeError")

\* floats x of the model for which the IEEE product x * 1_000_000 falls just
\* below the exact one, so that int() truncates to one less
TruncatedMicros == {2010000}

\* int(float(value) * 1_000_000)
\* int(f * 1_000_000) of the float f
MicrosOfFloat(f) ==
    CASE IsRaise(f) -> f
      [] f.t = <<W("inf")>> -> Raise("OverflowError")
      [] f.t = <<W("nan")>> -> Raise("ValueError")
      [] OTHER -> IntV(IF f.n \in TruncatedMicros THEN f.n - 1 ELSE f.n)

ToMicros(value) == MicrosOfFloat(ToFloat(value))

\* str(value) if value else ""
StrOrEmpty(value) == IF Truthy(value) THEN PyStr(value) ELSE EmptyStr

\* the name shape built from a cell
NameOfParts(parts) ==
    DictV([firstName |-> parts[1],
           lastName |-> IF Len(parts) > 1 THEN parts[2] ELSE EmptyStr])

\* the name shape built from a cell
UnflattenName(value) ==
    NameOfParts(IF Truthy(value) THEN Split1(PyStr(value)) ELSE <<EmptyStr, EmptyStr>>)

\* {**existing, key: v}
DictSet(d, key, v) ==
    [x \in DOMAIN d \cup {key} |-> IF x = key THEN v ELSE d[x]]

\* field.lower() of the configured field names
Lower(field) ==
    CASE field = "domainName" -> "domainname"
      [] field = "linkedinLink" -> "linkedinlink"
      [] field = "annualRecurringRevenue" -> "annualrecurringrevenue"
      [] field = "idealCustomerProfile" -> "idealcustomerprofile"
      [] field = "jobTitle" -> "jobtitle"
      [] OTHER -> field

\* "link" in field_lower
ContainsLink(field_lower) == field_lower \in {"linkedinlink", "link"}

\* the currency shape from the micros m; when the conversion raised
\* TypeError or ValueError the fallback is returned, any other error leaves
CurrencyOf(m, code, fallback) ==
    IF IsRaise(m)
    THEN IF m \in {Raise("TypeError"), Raise("ValueError")} THEN fallback ELSE m
    ELSE DictV([amountMicros |-> m, currencyCode |-> code])

\* the template an existing dict offers, by the first of the keys looked for
TemplateOf(d) ==
    IF "firstName" \in DOMAIN d \/ "lastName" \in DOMAIN d THEN "name"
    ELSE IF "primaryEmail" \in DOMAIN d THEN "email"
    ELSE IF "primaryPhoneNumber" \in DOMAIN d THEN "phone"
    ELSE IF "primaryLinkUrl" \in DOMAIN d THEN "link"
    ELSE IF "amountMicros" \in DOMAIN d THEN "currency"
    ELSE IF "addressStreet1" \in DOMAIN d THEN "address"
    ELSE "unknown"

\* the existing value's shape is the template
UnflattenAs(shape, value, existing) ==
    CASE shape = "name" -> UnflattenName(value)
      [] shape = "email" -> DictV([primaryEmail |-> StrOrEmpty(value)])
      [] shape = "phone" -> DictV([primaryPhoneNumber |-> StrOrEmpty(value)])
      [] shape = "link" -> DictV([primaryLinkUrl |-> StrOrEmpty(value)])
      [] shape = "currency" ->
            CurrencyOf(ToMicros(value), Get(existing.d, "currencyCode", S("USD")),
                       existing)
      [] shape = "address" ->
            DictV(DictSet(existing.d, "addressStreet1", StrOrEmpty(value)))
      [] OTHER -> existing

\* the shape is inferred from the lower-cased field name
UnflattenByName(field_lower, value) ==
    CASE field_lower = "name" -> UnflattenName(value)
      [] field_lower \in {"email", "emails"} -> DictV([primaryEmail |-> StrOrEmpty(value)])
      [] field_lower \in {"phone", "phones"} ->
            DictV([primaryPhoneNumber |-> StrOrEmpty(value)])
      [] ContainsLink(field_lower) -> DictV([primaryLinkUrl |-> StrOrEmpty(value)])
      [] field_lower = "address" -> DictV([addressStreet1 |-> StrOrEmpty(value)])
      [] field_lower \in {"annualrecurringrevenue", "amount"} ->
            CurrencyOf(ToMicros(value), S("USD"),
                       DictV([amountMicros |-> IntV(0), currencyCode |-> S("USD")]))
      [] OTHER -> value

_unflatten_value(field, value, existing) ==
    IF IsDict(existing) THEN UnflattenAs(TemplateOf(existing.d), value, existing)
    ELSE UnflattenByName(Lower(field), value)

(***************************************************************************)
(* Timestamps, comparison and conflict resolution: scripts/sync_engine.py  *)
(***************************************************************************)

\* the parsed datetime [ok, aware, n]; ok = FALSE is Python's None
NoTs == [ok |-> FALSE, aware |-> FALSE, n |-> 0]
Ts(aware, n) == [ok |-> TRUE, aware |-> aware, n |-> n]

\* datetime.fromisoformat(s) of the text s, after replace("Z", "+00:00")
FromIso(s) ==
    IF Len(s.t) # 1 THEN NoTs
    ELSE CASE s.t[1].c \in {"isoz", "isoo"} -> Ts(TRUE, s.t[1].n)
           [] s.t[1].c \in {"iso", "t"} -> Ts(FALSE, s.t[1].n)
           [] OTHER -> NoTs

_parse_ts(value) ==
    CASE value.k = "none" -> NoTs
      [] value.k = "dt" -> Ts(TRUE, value.n)
      [] OTHER -> FromIso(PyStr(value))

\* the texts _norm takes for empty
EmptyTexts ==
    {S("None"), Text(<<ITok(0)>>), Text(<<FTok(0)>>), Text(<<RTok(<<>>)>>), S("[]")}

NormText(s) == IF s \in EmptyTexts THEN EmptyStr ELSE s

\* a normalisation that keeps the surrounding whitespace
NormUnstripped(v) == IF v.k = "none" THEN EmptyStr ELSE NormText(PyStr(v))

_norm(v) == IF v.k = "none" THEN EmptyStr ELSE NormText(Strip(PyStr(v)))

\* CONFLICT_STRATEGY values (config.py)
Strategies == {"crm_wins", "excel_wins", "newest_wins"}

\* a comparison that gives a tie to the tabular side
CompareGt(crm_ts, xl_ts) ==
    IF crm_ts.aware # xl_ts.aware THEN "TypeError"
    ELSE IF crm_ts.n > xl_ts.n THEN "crm" ELSE "excel"

\* crm_ts >= xl_ts of two datetimes: comparing an offset-aware with an
\* offset-naive datetime raises TypeError
CompareGe(crm_ts, xl_ts) ==
    IF crm_ts.aware # xl_ts.aware THEN "TypeError"
    ELSE IF crm_ts.n >= xl_ts.n THEN "crm" ELSE "excel"

\* a newest_wins that gives the tabular side an equal marker
NewestWinsStrict(crm_ts, xl_ts) ==
    IF crm_ts.ok /\ xl_ts.ok THEN CompareGt(crm_ts, xl_ts) ELSE "crm"

\* the newest_wins branch, from the two parsed markers
NewestWins(crm_ts, xl_ts) ==
    IF crm_ts.ok /\ xl_ts.ok THEN CompareGe(crm_ts, xl_ts) ELSE "crm"

\* a resolver that compares the markers whatever the strategy
ResolveByMarkers(strat, crm_rec, xl_rec) ==
    NewestWins(_parse_ts(Get(crm_rec, "updatedAt", NoneV)),
               _parse_ts(Get(xl_rec, "updatedAt", NoneV)))

\* "crm", "excel", or the name of the error raised
_resolve_conflict(strat, crm_rec, xl_rec) ==
    IF strat = "crm_wins" THEN "crm"
    ELSE IF strat = "excel_wins" THEN "excel"
    ELSE NewestWins(_parse_ts(Get(crm_rec, "updatedAt", NoneV)),
                    _parse_ts(Get(xl_rec, "updatedAt", NoneV)))

(***************************************************************************)
(* Configuration: config.py                                                *)
(***************************************************************************)
SYNC_OBJECTS == <<"companies", "people">>

Objects == {SYNC_OBJECTS[i] : i \in 1..Len(SYNC_OBJECTS)}

Fields(obj) ==
    IF obj = "companies"
    THEN <<"name", "domainName", "address", "employees", "linkedinLink",
           "annualRecurringRevenue", "idealCustomerProfile", "position">>
    ELSE <<"name", "emails", "phones", "city", "jobTitle", "linkedinLink",
           "position">>

_RESERVED_COLS == <<"id", "updatedAt">>

_all_columns(obj) == _RESERVED_COLS \o Fields(obj)

Range(seq) == {seq[i] : i \in 1..Len(seq)}

(***************************************************************************)
(* Diff: scripts/sync_engine.py                                            *)
(***************************************************************************)

\* a Python dict with insertion order: keys in the order of first insertion,
\* each bound to the value inserted last
EmptyLookup == [keys |-> <<>>, map |-> <<>>]

LookupPut(lk, key, rec) ==
    [keys |-> IF key \in DOMAIN lk.map THEN lk.keys ELSE Append(lk.keys, key),
     map |-> DictSet(lk.map, key, rec)]

\* {str(r[key]): r for r in records if r.get(key)}
RECURSIVE BuildLookupFrom(_, _)
BuildLookupFrom(records, lk) ==
    IF records = <<>> THEN lk
    ELSE BuildLookupFrom(Tail(records),
            IF Truthy(Get(Head(records), "id", NoneV))
            THEN LookupPut(lk, PyStr(Head(records)["id"]), Head(records))
            ELSE lk)

\* a lookup holding the first record only
LookupOfFirst(records) ==
    BuildLookupFrom(IF records = <<>> THEN <<>> ELSE <<Head(records)>>, EmptyLookup)

_build_lookup(records) == BuildLookupFrom(records, EmptyLookup)

\* "True", "False", or the error _flatten_value raised, scanning fields in order
RECURSIVE FieldsChangedFrom(_, _, _)
\* a comparison of the two values as they are, without _norm
FieldDiffersRaw(crm_val, xl_val) ==
    IF IsRaise(crm_val) THEN "TypeError"
    ELSE IF crm_val # xl_val THEN "True" ELSE "False"

\* one field: "TypeError" when _flatten_value raised, else whether it differs
FieldDiffers(crm_val, xl_val) ==
    IF IsRaise(crm_val) THEN "TypeError"
    ELSE IF _norm(crm_val) # _norm(xl_val) THEN "True" ELSE "False"

FieldsChangedNext(one, crm_rec, excel_rec, rest) ==
    IF one = "False" THEN FieldsChangedFrom(crm_rec, excel_rec, rest) ELSE one

FieldsChangedFrom(crm_rec, excel_rec, fields) ==
    IF fields = <<>> THEN "False"
    ELSE FieldsChangedNext(
            FieldDiffers(_flatten_value(Get(crm_rec, Head(fields), NoneV)),
                         Get(excel_rec, Head(fields), NoneV)),
            crm_rec, excel_rec, Tail(fields))

_fields_changed(crm_rec, excel_rec, fields) ==
    FieldsChangedFrom(crm_rec, excel_rec, fields)

\* the payload dict, or [error |-> ...] when _unflatten_value raised
RECURSIVE PayloadFrom(_, _, _, _)
PayloadNext(f, v, xl_rec, crm_rec, rest, payload) ==
    IF IsRaise(v) THEN [error |-> v]
    ELSE PayloadFrom(xl_rec, crm_rec, rest, DictSet(payload, f, v))

PayloadFrom(xl_rec, crm_rec, fields, payload) ==
    IF fields = <<>> THEN payload
    ELSE IF Get(xl_rec, Head(fields), NoneV).k = "none"
    THEN PayloadFrom(xl_rec, crm_rec, Tail(fields), payload)
    ELSE PayloadNext(Head(fields),
                     _unflatten_value(Head(fields), xl_rec[Head(fields)],
                                      IF crm_rec = <<>> THEN NoneV
                                      ELSE Get(crm_rec, Head(fields), NoneV)),
                     xl_rec, crm_rec, Tail(fields), payload)

\* a payload that keeps the empty cells, as None
PayloadWithEmptyCells(xl_rec, crm_rec, fields) ==
    [f \in Range(fields) |->
        IF Get(xl_rec, f, NoneV).k = "none" THEN NoneV
        ELSE _unflatten_value(f, xl_rec[f],
                              IF crm_rec = <<>> THEN NoneV
                              ELSE Get(crm_rec, f, NoneV))]

\* crm_rec = <<>> stands for "no CRM record" (None)
_excel_to_crm_payload(xl_rec, crm_rec, fields) ==
    PayloadFrom(xl_rec, crm_rec, fields, <<>>)

IsError(payload) == DOMAIN payload = {"error"}

(***************************************************************************)
(* The sheet of one object: a sequence of rows below the header, each a    *)
(* function from the column names to cell values.  Row i of the sequence   *)
(* is worksheet row i + 1.  scripts/excel_handler.py                       *)
(***************************************************************************)

\* read_excel: rows whose cells are all None are omitted
RECURSIVE ReadRowsFrom(_, _, _, _)
ReadRowsFrom(obj, rows, i, out) ==
    IF i > Len(rows) THEN out
    ELSE LET all_none == \A c \in Range(_all_columns(obj)) : rows[i][c].k = "none"
         IN ReadRowsFrom(obj, rows, i + 1,
                IF all_none THEN out
                ELSE Append(out, DictSet(rows[i], "_excel_row", IntV(i + 1))))

read_excel(obj, rows) == ReadRowsFrom(obj, rows, 1, <<>>)

\* cells that leave out the reserved columns
RowOfTracked(obj, record) ==
    [c \in Range(_all_columns(obj)) |->
        IF c \in Range(_RESERVED_COLS) THEN NoneV
        ELSE _flatten_value(Get(record, c, NoneV))]

\* the cells written for one record: _flatten_value of each column
RowOf(obj, record) ==
    [c \in Range(_all_columns(obj)) |-> _flatten_value(Get(record, c, NoneV))]

\* a cell holds None, a str, a number or a datetime; anything else is refused
RowRaises(row) == \E c \in DOMAIN row : row[c].k \in {"raise", "dict"}

\* a writer that puts the values of the records into the cells as they are
WriteRaw(obj, crm_records) ==
    [error |-> FALSE,
     rows |-> [i \in 1..Len(crm_records) |->
                 [c \in Range(_all_columns(obj)) |-> Get(crm_records[i], c, NoneV)]]]

\* write_excel: the new rows, or <<"error">> when a cell could not be built
\* (the workbook is then not saved)
write_excel(obj, crm_records) ==
    LET new == [i \in 1..Len(crm_records) |-> RowOf(obj, crm_records[i])]
    IN IF \E i \in 1..Len(new) : RowRaises(new[i])
       THEN [error |-> TRUE, rows |-> <<>>]
       ELSE [error |-> FALSE, rows |-> new]

\* id -> position of the last row carrying it
RECURSIVE ExistingIdsFrom(_, _, _)
ExistingIdsFrom(rows, i, ids) ==
    IF i > Len(rows) THEN ids
    ELSE ExistingIdsFrom(rows, i + 1,
            IF Truthy(rows[i]["id"]) THEN DictSet(ids, PyStr(rows[i]["id"]), i)
            ELSE ids)

RECURSIVE UpsertFrom(_, _, _, _)
UpsertFrom(obj, records, rows, ids) ==
    IF records = <<>> THEN [error |-> FALSE, rows |-> rows]
    ELSE LET record == Head(records)
             rid == PyStr(Get(record, "id", EmptyStr))
             row == RowOf(obj, record)
             target == IF rid \in DOMAIN ids THEN ids[rid] ELSE Len(rows) + 1
         IN IF RowRaises(row) THEN [error |-> TRUE, rows |-> <<>>]
            ELSE UpsertFrom(obj, Tail(records),
                    IF target > Len(rows) THEN Append(rows, row)
                    ELSE [rows EXCEPT ![target] = row],
                    DictSet(ids, rid, target))

\* upsert_excel_rows: the rows saved, or an error (nothing is then saved)
upsert_excel_rows(obj, rows, records) ==
    UpsertFrom(obj, records, rows, ExistingIdsFrom(rows, 1, <<>>))

(***************************************************************************)
(* The remote record service behind TwentyClient: twenty_client.py         *)
(***************************************************************************)

\* the id the service gives its n-th record
IdV(n) == Text(<<ITok(n)>>)

\* the records the service builds for a create batch: each payload with a
\* fresh id and the service's time as updatedAt
CreatedRecords(payloads, nid, now) ==
    [i \in 1..Len(payloads) |->
        DictSet(DictSet(payloads[i], "id", IdV(nid + i - 1)), "updatedAt", IsoZ(now))]

\* one record after a patch: the patch's fields replace the record's
Patched(rec, patch, now) ==
    [x \in DOMAIN rec \cup DOMAIN patch |->
        IF x = "updatedAt" THEN IsoZ(now)
        ELSE IF x \in DOMAIN patch THEN patch[x] ELSE rec[x]]

RECURSIVE ApplyPatches(_, _, _)
ApplyPatches(records, patches, now) ==
    IF patches = <<>> THEN records
    ELSE LET patch == Head(patches)
         IN ApplyPatches(
                [i \in 1..Len(records) |->
                    IF Truthy(Get(records[i], "id", NoneV))
                       /\ PyStr(records[i]["id"]) = PyStr(patch["id"])
                    THEN Patched(records[i], patch, now) ELSE records[i]],
                Tail(patches), now)

(***************************************************************************)
(* SyncEngine._sync_object: scripts/sync_engine.py                         *)
(***************************************************************************)
ZeroCounters ==
    [crm_to_excel |-> 0, excel_to_crm_created |-> 0, excel_to_crm_updated |-> 0,
     conflicts |-> 0, skipped |-> 0]

Bump(counters, name) == [counters EXCEPT ![name] = @ + 1]

\* the accumulator of the walks: the three batches, the counters and the
\* error that ended the walk ("none" while it runs)
EmptyDiff ==
    [upsert |-> <<>>, create |-> <<>>, update |-> <<>>,
     counters |-> ZeroCounters, error |-> "none"]

\* a conflict that is routed to the sheet without being counted
KeepCrmUncounted(acc, crm_rec) ==
    [acc EXCEPT !.upsert = Append(@, crm_rec),
                !.counters = Bump(@, "crm_to_excel")]

\* winner == "crm": the CRM record goes to the sheet
KeepCrm(acc, crm_rec) ==
    [acc EXCEPT !.upsert = Append(@, crm_rec),
                !.counters = Bump(Bump(@, "conflicts"), "crm_to_excel")]

\* winner == "excel": the row goes to the CRM as a patch carrying the id
KeepExcel(acc, rid, patch) ==
    IF IsError(patch)
    THEN [acc EXCEPT !.error = "OverflowError", !.counters = Bump(@, "conflicts")]
    ELSE [acc EXCEPT !.update = Append(@, DictSet(patch, "id", rid)),
                     !.counters = Bump(Bump(@, "conflicts"), "excel_to_crm_updated")]

\* both sides exist and differ
Conflict(side, rid, crm_rec, xl_rec, fields, acc) ==
    CASE side = "crm" -> KeepCrm(acc, crm_rec)
      [] side = "excel" ->
            KeepExcel(acc, rid, _excel_to_crm_payload(xl_rec, crm_rec, fields))
      [] OTHER -> [acc EXCEPT !.error = side]

Compared(changed, rid, crm_rec, xl_rec, fields, strat, acc) ==
    CASE changed = "False" -> [acc EXCEPT !.counters = Bump(@, "skipped")]
      [] changed = "True" ->
            Conflict(_resolve_conflict(strat, crm_rec, xl_rec),
                     rid, crm_rec, xl_rec, fields, acc)
      [] OTHER -> [acc EXCEPT !.error = changed]

\* a walk step that schedules a record new in the CRM without counting it
WalkCrmOneUncounted(rid, crm_by_id, xl_by_id, fields, strat, acc) ==
    IF rid \notin DOMAIN xl_by_id.map
    THEN [acc EXCEPT !.upsert = Append(@, crm_by_id.map[rid])]
    ELSE Compared(_fields_changed(crm_by_id.map[rid], xl_by_id.map[rid], fields),
                  rid, crm_by_id.map[rid], xl_by_id.map[rid], fields, strat, acc)

\* step 2 for one CRM id
WalkCrmOne(rid, crm_by_id, xl_by_id, fields, strat, acc) ==
    IF rid \notin DOMAIN xl_by_id.map
    THEN [acc EXCEPT !.upsert = Append(@, crm_by_id.map[rid]),
                     !.counters = Bump(@, "crm_to_excel")]
    ELSE Compared(_fields_changed(crm_by_id.map[rid], xl_by_id.map[rid], fields),
                  rid, crm_by_id.map[rid], xl_by_id.map[rid], fields, strat, acc)

RECURSIVE WalkCrm(_, _, _, _, _, _)
WalkCrm(keys, crm_by_id, xl_by_id, fields, strat, acc) ==
    IF keys = <<>> \/ acc.error # "none" THEN acc
    ELSE WalkCrm(Tail(keys), crm_by_id, xl_by_id, fields, strat,
                 WalkCrmOne(Head(keys), crm_by_id, xl_by_id, fields, strat, acc))

\* a test that takes no id for a placeholder
NeverPlaceholder(rid) == FALSE

\* rid in ("", "None"): the texts an absent id turns into
IsPlaceholder(rid) == rid \in {EmptyStr, S("None")}

\* step 3: ids of the sheet that the CRM does not have
RECURSIVE WalkExcelOnly(_, _, _)
WalkExcelOnly(keys, crm_by_id, acc) ==
    IF keys = <<>> \/ acc.error # "none" THEN acc
    ELSE WalkExcelOnly(Tail(keys), crm_by_id,
            IF Head(keys) \notin DOMAIN crm_by_id.map
               /\ ~IsPlaceholder(Head(keys))
            THEN [acc EXCEPT !.counters = Bump(@, "skipped")]
            ELSE acc)

\* a test that lets every payload through
AnyValue(payload) == TRUE

\* any(v for v in payload.values())
AnyTruthy(payload) == \E f \in DOMAIN payload : Truthy(payload[f])

\* one row without an id: its payload is scheduled when it has a value
NewRow(payload, acc) ==
    IF IsError(payload) THEN [acc EXCEPT !.error = "OverflowError"]
    ELSE IF AnyTruthy(payload)
         THEN [acc EXCEPT !.create = Append(@, payload),
                          !.counters = Bump(@, "excel_to_crm_created")]
         ELSE acc

\* rows without an id
RECURSIVE WalkNewRows(_, _, _)
WalkNewRows(excel_records, fields, acc) ==
    IF excel_records = <<>> \/ acc.error # "none" THEN acc
    ELSE WalkNewRows(Tail(excel_records), fields,
            IF Truthy(Get(Head(excel_records), "id", NoneV)) THEN acc
            ELSE NewRow(_excel_to_crm_payload(Head(excel_records), <<>>, fields), acc))

\* steps 1 to 3 of _sync_object: the batches and counters computed from the
\* two snapshots
Diff(obj, strat, crm_records, excel_records) ==
    LET fields == Fields(obj)
        crm_by_id == _build_lookup(crm_records)
        xl_by_id == _build_lookup(excel_records)
        a1 == WalkCrm(crm_by_id.keys, crm_by_id, xl_by_id, fields, strat, EmptyDiff)
        a2 == WalkExcelOnly(xl_by_id.keys, crm_by_id, a1)
    IN WalkNewRows(excel_records, fields, a2)

\* last_sync_ids = self.state.get(obj_key, {})
last_sync_ids(st, obj) == Get(st, obj, <<>>)

\* a diff that leaves out the remote records recorded by an earlier pass
RECURSIVE Unrecorded(_, _)
Unrecorded(crm_records, known) ==
    IF crm_records = <<>> THEN <<>>
    ELSE IF PyStr(Get(Head(crm_records), "id", NoneV)) \in DOMAIN known
         THEN Unrecorded(Tail(crm_records), known)
         ELSE <<Head(crm_records)>> \o Unrecorded(Tail(crm_records), known)

DiffOfUnrecorded(obj, strat, crm_records, excel_records, known) ==
    Diff(obj, strat, Unrecorded(crm_records, known), excel_records)

\* the classification as _sync_object makes it: the table of the earlier
\* passes is read into last_sync_ids and the walks never look at it
DiffWith(obj, strat, crm_records, excel_records, known) ==
    Diff(obj, strat, crm_records, excel_records)

\* a table holding the first record only
StateFromFirst(records, now, obj_state) ==
    IF records = <<>> \/ ~Truthy(Get(Head(records), "id", NoneV)) THEN obj_state
    ELSE DictSet(obj_state, PyStr(Head(records)["id"]),
                 IF Truthy(Get(Head(records), "updatedAt", NoneV))
                 THEN PyStr(Head(records)["updatedAt"]) ELSE IsoOff(now))

\* _update_state_from_crm: the object's new table, id -> marker text
RECURSIVE StateFrom(_, _, _)
StateFrom(records, now, obj_state) ==
    IF records = <<>> THEN obj_state
    ELSE LET r == Head(records)
             rid == Get(r, "id", NoneV)
             updated == Get(r, "updatedAt", NoneV)
         IN StateFrom(Tail(records), now,
                IF Truthy(rid)
                THEN DictSet(obj_state, PyStr(rid),
                             IF Truthy(updated) THEN PyStr(updated) ELSE IsoOff(now))
                ELSE obj_state)

_update_state_from_crm(records, now) == StateFrom(records, now, <<>>)

\* What the collaborators do in one pass: abort names the call that raises
\* outside any try block ("get_all_records", "upsert", "refetch",
\* "write_excel" or "none"); create is "ok", "fail" (batch_create raises) or
\* "upsert_fail" (the write-back of the created records raises); update is
\* "ok" or "fail" (batch_update raises).

\* what batch_create and the write-back of the created rows do
CreateEffect(issued, ok, created, back, f, crm0, rows1, nid, now) ==
    [issued |-> issued, ok |-> ok,
     backOk |-> ok /\ f.create # "upsert_fail" /\ ~back.error,
     raised |-> FALSE,
     crm |-> IF ok THEN crm0 \o created ELSE crm0,
     rows |-> IF ok /\ f.create # "upsert_fail" /\ ~back.error THEN back.rows ELSE rows1,
     nid |-> IF ok THEN nid + Len(created) ELSE nid,
     now |-> IF ok THEN now + 1 ELSE now]

CreateAttempt(obj, D, f, crm0, rows1, nid, now, created) ==
    CreateEffect(D.create # <<>>, D.create # <<>> /\ f.create # "fail", created,
                 upsert_excel_rows(obj, rows1, created), f, crm0, rows1, nid, now)

\* the create step without its try block: what is raised leaves the pass
CreateStepNoTry(obj, D, f, crm0, rows1, nid, now) ==
    [CreateAttempt(obj, D, f, crm0, rows1, nid, now,
                   CreatedRecords(D.create, nid, now))
        EXCEPT !.raised = D.create # <<>> /\ f.create # "ok"]

\* the try block around batch_create and the write-back of the created rows
CreateStep(obj, D, f, crm0, rows1, nid, now) ==
    CreateAttempt(obj, D, f, crm0, rows1, nid, now, CreatedRecords(D.create, nid, now))

UpdateEffect(issued, ok, D, crm1, now) ==
    [issued |-> issued, ok |-> ok, raised |-> FALSE,
     crm |-> IF ok THEN ApplyPatches(crm1, D.update, now) ELSE crm1,
     now |-> IF ok THEN now + 1 ELSE now]

\* the update step without its try block
UpdateStepNoTry(D, f, crm1, now) ==
    [UpdateEffect(D.update # <<>>, D.update # <<>> /\ f.update # "fail", D, crm1, now)
        EXCEPT !.raised = D.update # <<>> /\ f.update = "fail"]

\* the try block around batch_update
UpdateStep(D, f, crm1, now) ==
    UpdateEffect(D.update # <<>>, D.update # <<>> /\ f.update # "fail", D, crm1, now)

\* The pass is a chain of steps, each handing what it computed to the next.
\* error is "none" when the pass returns its counters, else the error that
\* left it; log lists the calls made, in order.

\* how the pass ends, from what each step did
PassResult(crm0, rows0, nid, now, f, excel_records, D, up, C, U, w) ==
    LET upIssued == D.upsert # <<>>
        upFails == upIssued /\ (f.abort = "upsert" \/ up.error)
        wFails == f.abort = "write_excel" \/ w.error
        stage ==
            IF f.abort = "get_all_records" THEN "fetch"
            ELSE IF f.abort = "read_excel" THEN "read"
            ELSE IF D.error # "none" THEN "diff"
            ELSE IF upFails THEN "upsert"
            ELSE IF C.raised THEN "create"
            ELSE IF U.raised THEN "update"
            ELSE IF f.abort = "refetch" THEN "refetch"
            ELSE IF wFails THEN "write_excel"
            ELSE "return"
        fetched == stage # "fetch"
        classified == stage \notin {"fetch", "read"}
        reached(stages) == stage \in stages
        written == reached({"create", "update", "refetch", "write_excel", "return"})
        refetched == reached({"write_excel", "return"})
    IN [stage |-> stage,
        error |->
            CASE stage = "return" -> "none"
              [] stage = "diff" -> D.error
              [] stage \in {"read", "upsert", "write_excel"} -> "OSError"
              [] OTHER -> "TwentyAPIError",
        log |->
            <<"get_all_records">>
            \o (IF fetched THEN <<"read_excel">> ELSE <<>>)
            \o (IF reached({"diff", "fetch", "read"}) \/ ~upIssued THEN <<>>
                ELSE <<"upsert_excel_rows">>)
            \o (IF written /\ C.issued THEN <<"batch_create">> ELSE <<>>)
            \o (IF written /\ stage # "create" /\ U.issued
                THEN <<"batch_update">> ELSE <<>>)
            \o (IF reached({"refetch", "write_excel", "return"})
                THEN <<"get_all_records">> ELSE <<>>)
            \o (IF refetched THEN <<"_update_state_from_crm", "write_excel">> ELSE <<>>),
        crm |-> IF written THEN (IF stage = "create" THEN C.crm ELSE U.crm) ELSE crm0,
        rows |-> IF stage = "return" THEN w.rows
                 ELSE IF written THEN C.rows ELSE rows0,
        nid |-> IF written THEN C.nid ELSE nid,
        now |-> IF written THEN (IF stage = "create" THEN C.now ELSE U.now) ELSE now,
        state_set |-> refetched,
        refreshed |-> IF refetched THEN U.crm ELSE <<>>,
        crm_records |-> IF fetched THEN crm0 ELSE <<>>,
        excel_records |-> IF classified THEN excel_records ELSE <<>>,
        upsert |-> IF classified THEN D.upsert ELSE <<>>,
        create |-> IF classified THEN D.create ELSE <<>>,
        update |-> IF classified THEN D.update ELSE <<>>,
        counters |-> IF classified THEN D.counters ELSE ZeroCounters,
        create_failed |-> written /\ C.issued /\ ~C.backOk,
        update_failed |-> written /\ stage # "create" /\ U.issued /\ ~U.ok]

\* step 5: re-fetch, state update, overwrite of the sheet
AfterUpdate(obj, crm0, rows0, nid, now, f, excel_records, D, up, C, U) ==
    PassResult(crm0, rows0, nid, now, f, excel_records, D, up, C, U,
               write_excel(obj, U.crm))

AfterCreate(obj, crm0, rows0, nid, now, f, excel_records, D, up, C) ==
    AfterUpdate(obj, crm0, rows0, nid, now, f, excel_records, D, up, C,
                UpdateStep(D, f, C.crm, C.now))

\* step 4: the sheet upsert, then the two remote batches
AfterUpsert(obj, crm0, rows0, nid, now, f, excel_records, D, up) ==
    AfterCreate(obj, crm0, rows0, nid, now, f, excel_records, D, up,
                CreateStep(obj, D, f, crm0,
                           IF D.upsert # <<>> /\ ~up.error THEN up.rows ELSE rows0,
                           nid, now))

AfterDiff(obj, crm0, rows0, nid, now, f, excel_records, D) ==
    AfterUpsert(obj, crm0, rows0, nid, now, f, excel_records, D,
                upsert_excel_rows(obj, rows0, D.upsert))

AfterRead(obj, strat, crm0, rows0, nid, now, f, excel_records) ==
    AfterDiff(obj, crm0, rows0, nid, now, f, excel_records,
              DiffWith(obj, strat, crm0, excel_records, last_sync_ids(state, obj)))

_sync_object(obj, strat, crm0, rows0, nid, now, f) ==
    AfterRead(obj, strat, crm0, rows0, nid, now, f, read_excel(obj, rows0))

(***************************************************************************)
(* Bounds of the model                                                     *)
(***************************************************************************)
\* rows of a sheet at the start
MaxRows == 2
\* instants 1..MaxTime appear as markers in the sheets at the start
MaxTime == 3

(***************************************************************************)
(* The stores at the start.  Of each object's fields the model fills two;  *)
(* the others are absent from the CRM records and empty in the sheet.      *)
(***************************************************************************)
NameV(first, last_name) == DictV([firstName |-> first, lastName |-> last_name])

\* the CRM records of an object, by id
CrmRecord(obj, n) ==
    IF obj = "people"
    THEN IF n = 1
         THEN [id |-> IdV(1), updatedAt |-> IsoZ(2),
               name |-> NameV(S("Al"), S("Smith")),
               emails |-> DictV([primaryEmail |-> S("a@x")])]
         ELSE [id |-> IdV(2), updatedAt |-> IsoZ(2), name |-> NameV(S("Bo"), EmptyStr),
               emails |-> DictV([primaryEmail |-> EmptyStr])]
    ELSE IF n = 1
         THEN [id |-> IdV(1), updatedAt |-> IsoZ(2), name |-> S("Acme"),
               annualRecurringRevenue |->
                   DictV([amountMicros |-> IntV(2500000), currencyCode |-> S("USD")])]
         ELSE [id |-> IdV(2), updatedAt |-> IsoZ(2), name |-> S("Bolt"),
               annualRecurringRevenue |->
                   DictV([amountMicros |-> NoneV, currencyCode |-> EmptyStr])]

CrmLists(obj) ==
    {<<>>, <<CrmRecord(obj, 1)>>, <<CrmRecord(obj, 1), CrmRecord(obj, 2)>>}

\* the two filled columns of an object and the cells they may hold
Col1(obj) == "name"
Col2(obj) == IF obj = "people" THEN "emails" ELSE "annualRecurringRevenue"

Cells1(obj) ==
    IF obj = "people" THEN {NoneV, Text(<<W("Al"), SP, W("Smith")>>), S("Bo")}
    ELSE {NoneV, S("Acme"), S("Bolt")}

Cells2(obj) == IF obj = "people" THEN {NoneV, S("a@x")} ELSE {NoneV, FloatV(2500000)}

RowIds == {NoneV, IdV(1), IdV(2), S("None")}

\* updatedAt cells: under newest_wins every relation to the CRM marker
Markers(strat) ==
    IF strat = "newest_wins"
    THEN {IsoZ(t) : t \in 1..MaxTime} \cup {Iso(2), NoneV}
    ELSE {IsoZ(MaxTime)}

MakeRow(obj, id, marker, c1, c2) ==
    [c \in Range(_all_columns(obj)) |->
        CASE c = "id" -> id
          [] c = "updatedAt" -> marker
          [] c = Col1(obj) -> c1
          [] c = Col2(obj) -> c2
          [] OTHER -> NoneV]

\* a row without an id whose only cell is a 0 in a plain column
ZeroRow(obj) ==
    [MakeRow(obj, NoneV, NoneV, NoneV, NoneV) EXCEPT !["position"] = IntV(0)]

\* the first row of a sheet ranges over all cells, the further rows over the
\* ids of the CRM (or none) with a third name and the newest marker
FirstRows(obj, strat) ==
    {MakeRow(obj, id, m, c1, c2) :
        id \in RowIds, m \in Markers(strat), c1 \in Cells1(obj), c2 \in Cells2(obj)}
    \cup {ZeroRow(obj)}

LaterRows(obj) ==
    {MakeRow(obj, id, IsoZ(MaxTime), S("Cy"), NoneV) : id \in {NoneV, IdV(1), IdV(2)}}

RECURSIVE RowSeqs(_, _, _)
RowSeqs(obj, strat, n) ==
    IF n = 0 THEN {<<>>}
    ELSE IF n = 1 THEN {<<>>} \cup {<<r>> : r \in FirstRows(obj, strat)}
    ELSE LET shorter == RowSeqs(obj, strat, n - 1)
         IN shorter \cup
            {Append(rows, r) : rows \in {x \in shorter : Len(x) = n - 1},
                               r \in LaterRows(obj)}

\* the stores of the object under study, and of the other one
RichScenes(obj, strat) ==
    {[crm |-> c, rows |-> r] : c \in CrmLists(obj), r \in RowSeqs(obj, strat, MaxRows)}

PlainScenes(obj) ==
    {[crm |-> <<>>, rows |-> <<>>],
     [crm |-> <<CrmRecord(obj, 1)>>,
      rows |-> <<MakeRow(obj, IdV(1), IsoZ(MaxTime), S("Cy"), NoneV)>>]}

(***************************************************************************)
(* Records of the passes made                                              *)
(***************************************************************************)
NoArgs == [crm_rec |-> <<>>, xl_rec |-> <<>>]

NoPass == [ran |-> FALSE]

\* the table an earlier run left for an object: the id "1" with an old
\* marker, and an id the CRM has no more
StaleTable == DictSet(DictSet(<<>>, IdV(1), IsoZ(1)), IdV(9), IsoZ(1))

\* the content of the state file at the start: none while the other object
\* is still empty, else what an earlier run left
StateFiles(other_records) ==
    IF other_records = {} THEN <<>> ELSE [o \in Objects |-> StaleTable]

\* what the state file can hold when the engine is constructed
InitialStateFiles == {<<>>, [o \in Objects |-> StaleTable]}

\* what is kept of a pass: its two snapshots, its batches and counters, the
\* calls it made, the step it ended in, and how it ended
PassRecord(r, f) ==
    [ran |-> TRUE, op |-> "sync", f |-> f, stage |-> r.stage, error |-> r.error,
     log |-> r.log,
     now |-> r.now,
     crm_records |-> r.crm_records, excel_records |-> r.excel_records,
     upsert |-> r.upsert, create |-> r.create, update |-> r.update,
     counters |-> r.counters, refreshed |-> r.refreshed,
     create_failed |-> r.create_failed, update_failed |-> r.update_failed]

Init ==
    /\ strategy \in Strategies
    /\ \E focus \in Objects :
         \E rich \in RichScenes(focus, strategy) :
           \E plain \in [Objects \ {focus} -> UNION {PlainScenes(o) : o \in Objects}] :
             /\ \A o \in Objects \ {focus} : plain[o] \in PlainScenes(o)
             /\ crm = [o \in Objects |-> IF o = focus THEN rich.crm ELSE plain[o].crm]
             /\ sheet = [o \in Objects |-> IF o = focus THEN rich.rows ELSE plain[o].rows]
             /\ stateFile = StateFiles(UNION {Range(plain[o].crm) : o \in Objects \ {focus}})
    /\ state = stateFile
    /\ stats = <<>>
    /\ pc = "idle"
    /\ idx = 0
    /\ clock = MaxTime + 1
    /\ nextId = 3
    /\ last = [o \in Objects |-> NoPass]
    /\ args = NoArgs
    /\ winner = "unset"
    /\ again = FALSE
    /\ NoSchedule

(***************************************************************************)
(* SyncEngine.sync_all                                                     *)
(***************************************************************************)

\* the collaborators' failures that can show in a pass with these batches
\* (at most one call outside the try blocks raises, and then the batches
\* are served); "read_excel" is load_workbook refusing a file that exists
\* and cannot be read
FaultChoices(D) ==
    {[abort |-> a, create |-> "ok", update |-> "ok"] :
        a \in {"get_all_records", "read_excel", "refetch", "write_excel"}
              \cup (IF D.upsert # <<>> THEN {"upsert"} ELSE {})}
    \cup
    {[abort |-> "none", create |-> c, update |-> u] :
        c \in IF D.create # <<>> THEN {"ok", "fail", "upsert_fail"} ELSE {"ok"},
        u \in IF D.update # <<>> THEN {"ok", "fail"} ELSE {"ok"}}

StartSyncAll ==
    /\ pc = "idle"
    /\ pc' = "sync_all"
    /\ idx' = 1
    /\ last' = [o \in Objects |-> NoPass]
    /\ UNCHANGED <<strategy, crm, sheet, state, stateFile, stats, clock, nextId>>
    /\ UNCHANGED <<args, winner, again, sched>>

\* the effect of one pass r on the engine and the two stores
Commit(obj, f, r) ==
    /\ crm' = [crm EXCEPT ![obj] = r.crm]
    /\ sheet' = [sheet EXCEPT ![obj] = r.rows]
    /\ state' = IF r.state_set
                THEN DictSet(state, obj, _update_state_from_crm(r.refreshed, r.now))
                ELSE state
    /\ nextId' = r.nid
    /\ clock' = r.now
    /\ last' = [last EXCEPT ![obj] = PassRecord(r, f)]
    /\ IF r.error = "none"
       THEN /\ stats' = DictSet(stats, obj, r.counters)
            /\ idx' = idx + 1
            /\ pc' = pc
       ELSE /\ pc' = "raised"
            /\ UNCHANGED <<stats, idx>>

\* the faults offered to the pass on obj
PassFaults(obj) ==
    FaultChoices(DiffWith(obj, strategy, crm[obj], read_excel(obj, sheet[obj]),
                          last_sync_ids(state, obj)))

\* self.stats[obj_key] = self._sync_object(obj_key)
SyncObject ==
    /\ pc = "sync_all"
    /\ idx <= Len(SYNC_OBJECTS)
    /\ \E f \in PassFaults(SYNC_OBJECTS[idx]) :
         Commit(SYNC_OBJECTS[idx], f,
                _sync_object(SYNC_OBJECTS[idx], strategy, crm[SYNC_OBJECTS[idx]],
                             sheet[SYNC_OBJECTS[idx]], nextId, clock, f))
    /\ UNCHANGED <<strategy, stateFile, args, winner, again, sched>>

\* _save_state(self.state); return self.stats
SaveState ==
    /\ pc = "sync_all"
    /\ idx > Len(SYNC_OBJECTS)
    /\ stateFile' = state
    /\ pc' = "done"
    /\ UNCHANGED <<strategy, crm, sheet, state, stats, idx, clock, nextId, last>>
    /\ UNCHANGED <<args, winner, again, sched>>

Next == StartSyncAll \/ SyncObject \/ SaveState

Spec == Init /\ [][Next]_vars

(***************************************************************************)
(* SyncEngine.pull                                                         *)
(***************************************************************************)

\* one turn of the loop of pull, f naming the call that raises ("none",
\* "get_all_records" or "write_excel"); w is what write_excel gives
PullEnd(stage, crm_records, rows0, f, w) ==
    [stage |-> stage,
     error |-> CASE stage = "return" -> "none"
                 [] stage = "fetch" -> "TwentyAPIError"
                 [] OTHER -> "OSError",
     log |-> IF stage = "fetch" THEN <<"get_all_records">>
             ELSE IF stage = "write_excel" THEN <<"get_all_records", "write_excel">>
             ELSE <<"get_all_records", "write_excel", "_update_state_from_crm">>,
     rows |-> IF stage = "return" THEN w.rows ELSE rows0,
     sheet_before |-> rows0,
     crm_records |-> IF stage = "fetch" THEN <<>> ELSE crm_records,
     counters |-> [pulled |-> Len(crm_records)]]

\* a turn that adds the records to the sheet and keeps its other rows
PullTurnUpserting(obj, crm_records, rows0, f, w) ==
    PullEnd(IF f = "get_all_records" THEN "fetch"
            ELSE IF f = "write_excel" \/ w.error THEN "write_excel"
            ELSE "return",
            crm_records, rows0, f, upsert_excel_rows(obj, rows0, crm_records))

PullTurn(obj, crm_records, rows0, f, w) ==
    PullEnd(IF f = "get_all_records" THEN "fetch"
            ELSE IF f = "write_excel" \/ w.error THEN "write_excel"
            ELSE "return",
            crm_records, rows0, f, w)

PullRecord(r, f) ==
    [ran |-> TRUE, op |-> "pull",
     f |-> [abort |-> f, create |-> "ok", update |-> "ok"],
     stage |-> r.stage, error |-> r.error, log |-> r.log, now |-> clock,
     crm_records |-> r.crm_records, excel_records |-> <<>>,
     upsert |-> <<>>, create |-> <<>>, update |-> <<>>,
     counters |-> r.counters, refreshed |-> r.crm_records,
     create_failed |-> FALSE, update_failed |-> FALSE,
     sheet_before |-> r.sheet_before]

PullCommit(obj, f, r) ==
    /\ sheet' = [sheet EXCEPT ![obj] = r.rows]
    /\ last' = [last EXCEPT ![obj] = PullRecord(r, f)]
    /\ IF r.error = "none"
       THEN /\ state' = DictSet(state, obj, _update_state_from_crm(r.crm_records, clock))
            /\ stats' = DictSet(stats, obj, r.counters)
            /\ idx' = idx + 1
            /\ pc' = pc
       ELSE /\ pc' = "raised"
            /\ UNCHANGED <<state, stats, idx>>

StartPull ==
    /\ pc = "idle"
    /\ pc' = "pull"
    /\ idx' = 1
    /\ last' = [o \in Objects |-> NoPass]
    /\ UNCHANGED <<strategy, crm, sheet, state, stateFile, stats, clock, nextId>>
    /\ UNCHANGED <<args, winner, again, sched>>

PullObject ==
    /\ pc = "pull"
    /\ idx <= Len(SYNC_OBJECTS)
    /\ \E f \in {"none", "get_all_records", "write_excel"} :
         PullCommit(SYNC_OBJECTS[idx], f,
                    PullTurn(SYNC_OBJECTS[idx], crm[SYNC_OBJECTS[idx]],
                             sheet[SYNC_OBJECTS[idx]], f,
                             write_excel(SYNC_OBJECTS[idx], crm[SYNC_OBJECTS[idx]])))
    /\ UNCHANGED <<strategy, crm, stateFile, clock, nextId, args, winner, again, sched>>

(***************************************************************************)
(* SyncEngine.push and _push_object                                        *)
(***************************************************************************)
PushCounters == [created |-> 0, updated |-> 0]

EmptyPush ==
    [create |-> <<>>, update |-> <<>>, counters |-> PushCounters, error |-> "none"]

\* the row differs from its CRM record: its patch is scheduled
PushPatch(patch, rid, acc) ==
    IF IsError(patch) THEN [acc EXCEPT !.error = "OverflowError"]
    ELSE [acc EXCEPT !.update = Append(@, DictSet(patch, "id", rid)),
                     !.counters = Bump(@, "updated")]

\* a comparison that lets the configured strategy keep the remote value
PushComparedByStrategy(changed, rid, crm_rec, xl_rec, fields, acc) ==
    CASE changed = "False" -> acc
      [] changed = "True" ->
            IF _resolve_conflict(strategy, crm_rec, xl_rec) = "crm" THEN acc
            ELSE PushPatch(_excel_to_crm_payload(xl_rec, crm_rec, fields), rid, acc)
      [] OTHER -> [acc EXCEPT !.error = changed]

PushCompared(changed, rid, crm_rec, xl_rec, fields, acc) ==
    CASE changed = "False" -> acc
      [] changed = "True" ->
            PushPatch(_excel_to_crm_payload(xl_rec, crm_rec, fields), rid, acc)
      [] OTHER -> [acc EXCEPT !.error = changed]

\* the row has no id: its payload is scheduled when it has a value
PushNew(payload, acc) ==
    IF IsError(payload) THEN [acc EXCEPT !.error = "OverflowError"]
    ELSE IF AnyTruthy(payload)
         THEN [acc EXCEPT !.create = Append(@, payload),
                          !.counters = Bump(@, "created")]
         ELSE acc

PushRow(xl_rec, rid, crm_by_id, fields, acc) ==
    IF Truthy(rid) /\ PyStr(rid) \in DOMAIN crm_by_id.map
    THEN PushCompared(_fields_changed(crm_by_id.map[PyStr(rid)], xl_rec, fields),
                      PyStr(rid), crm_by_id.map[PyStr(rid)], xl_rec, fields, acc)
    ELSE IF ~Truthy(rid)
    THEN PushNew(_excel_to_crm_payload(xl_rec, <<>>, fields), acc)
    ELSE acc

RECURSIVE PushWalk(_, _, _, _)
PushWalk(excel_records, crm_by_id, fields, acc) ==
    IF excel_records = <<>> \/ acc.error # "none" THEN acc
    ELSE PushWalk(Tail(excel_records), crm_by_id, fields,
                  PushRow(Head(excel_records), Get(Head(excel_records), "id", NoneV),
                          crm_by_id, fields, acc))

\* the loop of _push_object over the rows
PushDiff(obj, crm_records, excel_records) ==
    PushWalk(excel_records, _build_lookup(crm_records), Fields(obj), EmptyPush)

\* how _push_object ends: no call is inside a try block, so the first one
\* that raises ends it; f.create is "ok", "fail" (batch_create raises) or
\* "upsert_fail" (upsert_excel_rows raises), f.update is "ok" or "fail"
PushEnd(stage, crm0, rows0, nid, now, excel_records, D, created, back) ==
    [stage |-> stage,
     error |-> CASE stage = "return" -> "none"
                 [] stage = "diff" -> D.error
                 [] stage = "upsert" -> "OSError"
                 [] OTHER -> "TwentyAPIError",
     log |-> <<"read_excel", "get_all_records">>
             \o (IF stage \in {"fetch", "diff"} \/ D.create = <<>> THEN <<>>
                 ELSE IF stage = "create" THEN <<"batch_create">>
                 ELSE <<"batch_create", "upsert_excel_rows">>)
             \o (IF stage \in {"update", "return"} /\ D.update # <<>>
                 THEN <<"batch_update">> ELSE <<>>),
     crm |-> IF stage \in {"fetch", "diff", "create"} THEN crm0
             ELSE IF stage = "return"
                  THEN ApplyPatches(crm0 \o created, D.update,
                                    IF created = <<>> THEN now ELSE now + 1)
                  ELSE crm0 \o created,
     rows |-> IF stage \in {"update", "return"} /\ D.create # <<>>
              THEN back.rows ELSE rows0,
     sheet_before |-> rows0,
     nid |-> IF stage \in {"fetch", "diff", "create"} THEN nid ELSE nid + Len(created),
     now |-> IF stage \in {"fetch", "diff", "create"} THEN now
             ELSE now + (IF created = <<>> THEN 0 ELSE 1)
                      + (IF stage = "return" /\ D.update # <<>> THEN 1 ELSE 0),
     crm_records |-> IF stage = "fetch" THEN <<>> ELSE crm0,
     excel_records |-> excel_records,
     create |-> IF stage = "fetch" THEN <<>> ELSE D.create,
     update |-> IF stage = "fetch" THEN <<>> ELSE D.update,
     counters |-> IF stage = "fetch" THEN PushCounters ELSE D.counters]

PushStage(f, D, back) ==
    IF f.abort = "get_all_records" THEN "fetch"
    ELSE IF D.error # "none" THEN "diff"
    ELSE IF D.create # <<>> /\ f.create = "fail" THEN "create"
    ELSE IF D.create # <<>> /\ (f.create = "upsert_fail" \/ back.error) THEN "upsert"
    ELSE IF D.update # <<>> /\ f.update = "fail" THEN "update"
    ELSE "return"

PushWrite(crm0, rows0, nid, now, f, excel_records, D, created, back) ==
    PushEnd(PushStage(f, D, back), crm0, rows0, nid, now, excel_records, D,
            created, back)

PushCreated(obj, crm0, rows0, nid, now, f, excel_records, D, created) ==
    PushWrite(crm0, rows0, nid, now, f, excel_records, D, created,
              upsert_excel_rows(obj, rows0, created))

PushAfterDiff(obj, crm0, rows0, nid, now, f, excel_records, D) ==
    PushCreated(obj, crm0, rows0, nid, now, f, excel_records, D,
                CreatedRecords(D.create, nid, now))

PushAfterRead(obj, crm0, rows0, nid, now, f, excel_records) ==
    PushAfterDiff(obj, crm0, rows0, nid, now, f, excel_records,
                  PushDiff(obj, crm0, excel_records))

_push_object(obj, crm0, rows0, nid, now, f) ==
    PushAfterRead(obj, crm0, rows0, nid, now, f, read_excel(obj, rows0))

PushRecord(r, f) ==
    [ran |-> TRUE, op |-> "push", f |-> f, stage |-> r.stage, error |-> r.error,
     log |-> r.log, now |-> r.now,
     crm_records |-> r.crm_records, excel_records |-> r.excel_records,
     upsert |-> <<>>, create |-> r.create, update |-> r.update,
     counters |-> r.counters, refreshed |-> <<>>,
     create_failed |-> r.stage \in {"create", "upsert"},
     update_failed |-> r.stage = "update",
     sheet_before |-> r.sheet_before]

PushCommit(obj, f, r) ==
    /\ crm' = [crm EXCEPT ![obj] = r.crm]
    /\ sheet' = [sheet EXCEPT ![obj] = r.rows]
    /\ nextId' = r.nid
    /\ clock' = r.now
    /\ last' = [last EXCEPT ![obj] = PushRecord(r, f)]
    /\ IF r.error = "none"
       THEN /\ stats' = DictSet(stats, obj, r.counters)
            /\ idx' = idx + 1
            /\ pc' = pc
       ELSE /\ pc' = "raised"
            /\ UNCHANGED <<stats, idx>>

\* the collaborators' failures that can show in a push with these batches
PushFaultChoices(D) ==
    {[abort |-> "get_all_records", create |-> "ok", update |-> "ok"]}
    \cup
    {[abort |-> "none", create |-> c, update |-> u] :
        c \in IF D.create # <<>> THEN {"ok", "fail", "upsert_fail"} ELSE {"ok"},
        u \in IF D.update # <<>> THEN {"ok", "fail"} ELSE {"ok"}}

PushFaults(obj) ==
    PushFaultChoices(PushDiff(obj, crm[obj], read_excel(obj, sheet[obj])))

StartPush ==
    /\ pc = "idle"
    /\ pc' = "push"
    /\ idx' = 1
    /\ last' = [o \in Objects |-> NoPass]
    /\ UNCHANGED <<strategy, crm, sheet, state, stateFile, stats, clock, nextId>>
    /\ UNCHANGED <<args, winner, again, sched>>

\* self.stats[obj_key] = self._push_object(obj_key)
PushObject ==
    /\ pc = "push"
    /\ idx <= Len(SYNC_OBJECTS)
    /\ \E f \in PushFaults(SYNC_OBJECTS[idx]) :
         PushCommit(SYNC_OBJECTS[idx], f,
                    _push_object(SYNC_OBJECTS[idx], crm[SYNC_OBJECTS[idx]],
                                 sheet[SYNC_OBJECTS[idx]], nextId, clock, f))
    /\ UNCHANGED <<strategy, state, stateFile, args, winner, again, sched>>

(***************************************************************************)
(* _save_state taken in its steps: Path.write_text opens the file, which   *)
(* empties it, then writes the text; the process can be stopped in between *)
(***************************************************************************)

\* a state file that holds no complete text: empty, or a part of the new text
Truncated == [truncated |-> TRUE]

OpenStateFile ==
    /\ pc \in {"sync_all", "pull", "push"}
    /\ idx > Len(SYNC_OBJECTS)
    /\ stateFile' = Truncated
    /\ pc' = "saving"
    /\ UNCHANGED <<strategy, crm, sheet, state, stats, idx, clock, nextId, last>>
    /\ UNCHANGED <<args, winner, again, sched>>

\* returning without the text being written
LeaveStateFile ==
    /\ pc = "saving"
    /\ pc' = "done"
    /\ UNCHANGED <<strategy, crm, sheet, state, stateFile, stats, idx, clock, nextId,
                   last, args, winner, again, sched>>

WriteStateFile ==
    /\ pc = "saving"
    /\ stateFile' = state
    /\ pc' = "done"
    /\ UNCHANGED <<strategy, crm, sheet, state, stats, idx, clock, nextId, last>>
    /\ UNCHANGED <<args, winner, again, sched>>

\* the process is stopped while the file is written
Interrupt ==
    /\ pc = "saving"
    /\ pc' = "killed"
    /\ UNCHANGED <<strategy, crm, sheet, state, stateFile, stats, idx, clock, nextId,
                   last, args, winner, again, sched>>

\* the three top-level operations of the engine
NextModes ==
    \/ StartSyncAll \/ SyncObject
    \/ StartPull \/ PullObject
    \/ StartPush \/ PushObject
    \/ OpenStateFile \/ WriteStateFile \/ Interrupt

SpecModes == Init /\ [][NextModes]_vars

(***************************************************************************)
(* The classification of _sync_object applied to two snapshots and to the  *)
(* same snapshots with their records in another order                      *)
(***************************************************************************)
Perms(n) == {f \in [1..n -> 1..n] : \A i, j \in 1..n : f[i] = f[j] => i = j}

Permuted(records, f) == [i \in 1..Len(records) |-> records[f[i]]]

Snapshots(obj, strat) ==
    {[obj |-> obj, crm_records |-> sc.crm, excel_records |-> read_excel(obj, sc.rows)] :
        sc \in RichScenes(obj, strat)}

InitDiff ==
    /\ strategy \in Strategies
    /\ \E o \in Objects : args \in Snapshots(o, strategy)
    /\ winner = "unset"
    /\ again = FALSE
    /\ NoSchedule
    /\ crm = [o \in Objects |-> <<>>]
    /\ sheet = [o \in Objects |-> <<>>]
    /\ state \in InitialStateFiles
    /\ stateFile = state
    /\ stats = <<>>
    /\ pc = "idle"
    /\ idx = 0
    /\ clock = MaxTime + 1
    /\ nextId = 3
    /\ last = [o \in Objects |-> NoPass]

\* both snapshots classified as given and with their records reordered
ClassifyPermuted ==
    /\ pc = "idle"
    /\ pc' = "done"
    /\ \E p \in Perms(Len(args.crm_records)), q \in Perms(Len(args.excel_records)) :
         winner' = [p |-> p, q |-> q,
                    given |-> DiffWith(args.obj, strategy, args.crm_records,
                                       args.excel_records,
                                       last_sync_ids(state, args.obj)),
                    permuted |-> DiffWith(args.obj, strategy,
                                          Permuted(args.crm_records, p),
                                          Permuted(args.excel_records, q),
                                          last_sync_ids(state, args.obj))]
    /\ UNCHANGED <<strategy, crm, sheet, state, stateFile, stats, idx, clock,
                   nextId, last, args, again, sched>>

NextDiff == ClassifyPermuted

SpecDiff == InitDiff /\ [][NextDiff]_vars

(***************************************************************************)
(* sync_all called again on the same engine after it returned, as the      *)
(* scheduler of main.py does, with no edit of either store in between      *)
(***************************************************************************)
StartAgain ==
    /\ pc = "done"
    /\ pc' = "sync_all"
    /\ idx' = 1
    /\ last' = [o \in Objects |-> NoPass]
    /\ again' = TRUE
    /\ UNCHANGED sched
    /\ UNCHANGED <<strategy, crm, sheet, state, stateFile, stats, clock, nextId>>
    /\ UNCHANGED <<args, winner>>

NextRerun == StartSyncAll \/ StartAgain \/ SyncObject \/ SaveState

SpecRerun == Init /\ [][NextRerun]_vars

(***************************************************************************)
(* cmd_schedule of main.py: sync_all in a loop, a sleep of one increment   *)
(* at a time in between, until the signal handler has set the flag         *)
(***************************************************************************)

\* the sleep between two passes, in increments (SYNC_INTERVAL_MINUTES * 60
\* in the program)
Interval == 2

\* the scheduled passes followed
MaxCycles == 2

InitSchedule ==
    /\ strategy \in Strategies
    /\ \E plain \in [Objects -> UNION {PlainScenes(o) : o \in Objects}] :
         /\ \A o \in Objects : plain[o] \in PlainScenes(o)
         /\ crm = [o \in Objects |-> plain[o].crm]
         /\ sheet = [o \in Objects |-> plain[o].rows]
    /\ stateFile \in InitialStateFiles
    /\ state = stateFile
    /\ stats = <<>>
    /\ pc = "loop"
    /\ idx = 0
    /\ clock = MaxTime + 1
    /\ nextId = 3
    /\ last = [o \in Objects |-> NoPass]
    /\ args = NoArgs
    /\ winner = "unset"
    /\ again = FALSE
    /\ NoSchedule

\* a handler that ends the process at once
SignalAborting ==
    /\ pc # "stopped"
    /\ ~_shutdown
    /\ _shutdown' = TRUE
    /\ caught' = pc
    /\ pc' = "stopped"
    /\ UNCHANGED <<strategy, crm, sheet, state, stateFile, stats, idx, clock,
                   nextId, last, args, winner, again, slept, cycles>>

\* _handle_signal: SIGINT or SIGTERM arrives, wherever the scheduler is
Signal ==
    /\ pc # "stopped"
    /\ ~_shutdown
    /\ _shutdown' = TRUE
    /\ caught' = pc
    /\ UNCHANGED <<strategy, crm, sheet, state, stateFile, stats, pc, idx, clock,
                   nextId, last, args, winner, again, slept, cycles>>

\* while not _shutdown: ... engine.sync_all()
CycleStart ==
    /\ pc = "loop"
    /\ ~_shutdown
    /\ cycles < MaxCycles
    /\ cycles' = cycles + 1
    /\ pc' = "sync_all"
    /\ idx' = 1
    /\ last' = [o \in Objects |-> NoPass]
    /\ UNCHANGED <<strategy, crm, sheet, state, stateFile, stats, clock, nextId>>
    /\ UNCHANGED <<args, winner, again, _shutdown, slept, caught>>

\* the loop condition fails: "Scheduler stopped."
LoopExit ==
    /\ pc = "loop"
    /\ _shutdown
    /\ pc' = "stopped"
    /\ UNCHANGED <<strategy, crm, sheet, state, stateFile, stats, idx, clock,
                   nextId, last, args, winner, again, sched>>

\* a scheduler that an exception of the cycle ends
AfterCycleUncaught ==
    /\ pc \in {"done", "raised"}
    /\ pc' = IF _shutdown \/ pc = "raised" THEN "stopped" ELSE "sleeping"
    /\ slept' = 0
    /\ UNCHANGED <<strategy, crm, sheet, state, stateFile, stats, idx, clock,
                   nextId, last, args, winner, again, _shutdown, caught, cycles>>

\* sync_all returned, or raised and the except block logged it:
\* if _shutdown: break, else the sleep begins
AfterCycle ==
    /\ pc \in {"done", "raised"}
    /\ pc' = IF _shutdown THEN "stopped" ELSE "sleeping"
    /\ slept' = 0
    /\ UNCHANGED <<strategy, crm, sheet, state, stateFile, stats, idx, clock,
                   nextId, last, args, winner, again, _shutdown, caught, cycles>>

\* a sleep loop that does not look at the flag
SleepStepDeaf ==
    /\ pc = "sleeping"
    /\ IF slept < Interval
       THEN slept' = slept + 1 /\ pc' = pc
       ELSE slept' = slept /\ pc' = "loop"
    /\ UNCHANGED <<strategy, crm, sheet, state, stateFile, stats, idx, clock,
                   nextId, last, args, winner, again, _shutdown, caught, cycles>>

\* for _ in range(interval): if _shutdown: break; time.sleep(1)
SleepStep ==
    /\ pc = "sleeping"
    /\ IF slept < Interval /\ ~_shutdown
       THEN slept' = slept + 1 /\ pc' = pc
       ELSE slept' = slept /\ pc' = "loop"
    /\ UNCHANGED <<strategy, crm, sheet, state, stateFile, stats, idx, clock,
                   nextId, last, args, winner, again, _shutdown, caught, cycles>>

NextSchedule ==
    \/ Signal
    \/ CycleStart \/ LoopExit \/ SyncObject \/ SaveState \/ AfterCycle \/ SleepStep

\* the steps of cmd_schedule around the passes
LoopSteps == CycleStart \/ LoopExit \/ SaveState \/ AfterCycle \/ SleepStep

\* what a step of SyncObject does to pc and idx: the pass returned and the
\* loop of sync_all moves on, or it raised.  SyncObject can be taken exactly
\* where this can, and is the one action that changes pc or idx there.
PassStep ==
    /\ pc = "sync_all"
    /\ idx <= Len(SYNC_OBJECTS)
    /\ \/ pc' = "raised" /\ idx' = idx
       \/ pc' = pc /\ idx' = idx + 1

\* the process keeps running: the main thread takes its next step, in the
\* loop of cmd_schedule and in a pass; no signal need ever arrive
SpecSchedule ==
    InitSchedule /\ [][NextSchedule]_vars
    /\ WF_vars(LoopSteps) /\ WF_<<pc, idx>>(PassStep)

(***************************************************************************)
(* SyncEngine._resolve_conflict on its own: every strategy, every pair of  *)
(* updatedAt values                                                        *)
(***************************************************************************)

\* the updatedAt values of a record: absent, null, texts that are no
\* timestamp, ISO texts with "Z", with an offset and without one, and the
\* datetime a date cell of the sheet holds
UpdatedAtValues ==
    {NoneV, EmptyStr, S("yesterday")}
    \cup {IsoZ(t) : t \in 1..MaxTime} \cup {IsoOff(t) : t \in 1..MaxTime}
    \cup {Iso(t) : t \in 1..MaxTime} \cup {DtV(t) : t \in 1..MaxTime}

RecordsWithMarker ==
    {[id |-> IdV(1)]} \cup {[id |-> IdV(1), updatedAt |-> m] : m \in UpdatedAtValues}

InitResolve ==
    /\ strategy \in Strategies
    /\ args \in [crm_rec : RecordsWithMarker, xl_rec : RecordsWithMarker]
    /\ winner = "unset"
    /\ again = FALSE
    /\ NoSchedule
    /\ crm = [o \in Objects |-> <<>>]
    /\ sheet = [o \in Objects |-> <<>>]
    /\ state = <<>>
    /\ stateFile = <<>>
    /\ stats = <<>>
    /\ pc = "idle"
    /\ idx = 0
    /\ clock = MaxTime + 1
    /\ nextId = 3
    /\ last = [o \in Objects |-> NoPass]

\* winner = self._resolve_conflict(crm_rec, xl_rec, obj_key)
ResolveConflict ==
    /\ winner = "unset"
    /\ winner' = _resolve_conflict(strategy, args.crm_rec, args.xl_rec)
    /\ UNCHANGED <<strategy, crm, sheet, state, stateFile, stats, pc, idx, clock,
                   nextId, last, args, again, sched>>

NextResolve == ResolveConflict

SpecResolve == InitResolve /\ [][NextResolve]_vars

(***************************************************************************)
(* Properties of SyncEngine._resolve_conflict, checked under SpecResolve   *)
(***************************************************************************)
CrmMarker == _parse_ts(Get(args.crm_rec, "updatedAt", NoneV))
XlMarker == _parse_ts(Get(args.xl_rec, "updatedAt", NoneV))

\* two parsed markers are ordered when both carry an offset or neither does
Ordered(a, b) == a.ok /\ b.ok /\ a.aware = b.aware

C3_ResolveNeverRaises ==
    (strategy = "newest_wins" /\ winner # "unset") =>
        /\ winner \in {"crm", "excel"}
        /\ (~CrmMarker.ok \/ ~XlMarker.ok) => winner = "crm"

\* C4: with a fixed-side strategy the winner is the configured side whatever
\* the two markers are: crm_wins gives "crm", excel_wins gives "excel".
C4_FixedSide ==
    winner # "unset" =>
        /\ strategy = "crm_wins" => winner = "crm"
        /\ strategy = "excel_wins" => winner = "excel"

\* excel_wins gave "excel" although the remote marker is the newer one
C4_Witness ==
    /\ strategy = "excel_wins"
    /\ winner = "excel"
    /\ Ordered(CrmMarker, XlMarker)
    /\ CrmMarker.n > XlMarker.n

(***************************************************************************)
(* Properties of a sync pass, checked under Spec on the pass kept in last  *)
(***************************************************************************)

\* the position of an object in SYNC_OBJECTS
Pos(o) == CHOOSE i \in 1..Len(SYNC_OBJECTS) : SYNC_OBJECTS[i] = o

\* the pass classified every record: both snapshots were read and the walks
\* came to their end
DiffDone(p) == p.ran /\ p.stage \notin {"fetch", "read", "diff"}

\* the ids of the remote snapshot, and the records carrying an id
WithId(records) == {i \in 1..Len(records) : Truthy(Get(records[i], "id", NoneV))}
IdsOf(records) == {PyStr(records[i]["id"]) : i \in WithId(records)}

\* the rows of the tabular snapshot carrying the id rid, and the one the
\* lookup keeps (the last)
RowsOf(p, rid) ==
    {i \in WithId(p.excel_records) : PyStr(p.excel_records[i]["id"]) = rid}

Max(set) == CHOOSE i \in set : \A j \in set : j <= i

KeptRow(p, rid) == p.excel_records[Max(RowsOf(p, rid))]

\* field k of the object agrees on both sides after flattening and
\* normalisation, or differs
FieldEq(o, k, crm_rec, xl_rec) ==
    /\ ~IsRaise(_flatten_value(Get(crm_rec, Fields(o)[k], NoneV)))
    /\ _norm(_flatten_value(Get(crm_rec, Fields(o)[k], NoneV)))
         = _norm(Get(xl_rec, Fields(o)[k], NoneV))

FieldNe(o, k, crm_rec, xl_rec) ==
    /\ ~IsRaise(_flatten_value(Get(crm_rec, Fields(o)[k], NoneV)))
    /\ _norm(_flatten_value(Get(crm_rec, Fields(o)[k], NoneV)))
         # _norm(Get(xl_rec, Fields(o)[k], NoneV))

Same(o, crm_rec, xl_rec) ==
    \A k \in 1..Len(Fields(o)) : FieldEq(o, k, crm_rec, xl_rec)

\* some field differs, the fields before it agreeing
Differs(o, crm_rec, xl_rec) ==
    \E k \in 1..Len(Fields(o)) :
        /\ FieldNe(o, k, crm_rec, xl_rec)
        /\ \A j \in 1..(k - 1) : FieldEq(o, j, crm_rec, xl_rec)

\* the remote records present on both sides, identical or conflicting
InBoth(p) ==
    {i \in WithId(p.crm_records) : RowsOf(p, PyStr(p.crm_records[i]["id"])) # {}}

UnchangedIn(o, p) ==
    {i \in InBoth(p) :
        Same(o, p.crm_records[i], KeptRow(p, PyStr(p.crm_records[i]["id"])))}

ConflictingIn(o, p) ==
    {i \in InBoth(p) :
        Differs(o, p.crm_records[i], KeptRow(p, PyStr(p.crm_records[i]["id"])))}

\* the ids of the tabular snapshot that the remote snapshot does not have
OrphanIds(p) == IdsOf(p.excel_records) \ IdsOf(p.crm_records)

\* the entries of a batch that carry the id rid
Carrying(batch, rid) ==
    {i \in 1..Len(batch) : "id" \in DOMAIN batch[i] /\ PyStr(batch[i]["id"]) = rid}

InNoBatch(p, rid) ==
    /\ Carrying(p.upsert, rid) = {}
    /\ Carrying(p.create, rid) = {}
    /\ Carrying(p.update, rid) = {}

\* C1: in a sync pass, an id present in both snapshots whose every tracked
\* field agrees after flattening and normalisation is classified unchanged:
\* it is in no write batch, it is counted in skipped, and conflicts is not
\* incremented for it (conflicts counts exactly the records that differ).
C1_IdenticalIsUnchanged ==
    \A o \in Objects :
        last[o].ran =>
            /\ \A i \in WithId(last[o].crm_records) :
                 LET rid == PyStr(last[o].crm_records[i]["id"])
                 IN (/\ RowsOf(last[o], rid) # {}
                     /\ \A j \in RowsOf(last[o], rid) :
                          Same(o, last[o].crm_records[i], last[o].excel_records[j]))
                    => InNoBatch(last[o], rid)
            /\ DiffDone(last[o]) =>
                 /\ last[o].counters.conflicts = Cardinality(ConflictingIn(o, last[o]))
                 /\ last[o].counters.skipped >= Cardinality(UnchangedIn(o, last[o]))
                 /\ last[o].counters.skipped
                      <= Cardinality(UnchangedIn(o, last[o]))
                         + Cardinality(OrphanIds(last[o]))

\* a finished pass with one record on both sides, identical only after
\* normalisation (an empty e-mail against an empty cell), counted in skipped
C1_Witness ==
    /\ last["people"].ran
    /\ last["people"].error = "none"
    /\ Len(last["people"].crm_records) = 2
    /\ UnchangedIn("people", last["people"]) = {2}
    /\ last["people"].counters.skipped = 1
    /\ last["people"].counters.conflicts = 0

\* C5: for every conflicting record of a sync pass, conflicts is incremented
\* exactly once and the record goes one way only: when the resolver gives
\* "crm" the remote record is in the tabular upsert and no remote update
\* carries its id; when it gives "excel" exactly one remote update carries
\* its id and the record is not in the tabular upsert.
C5_ConflictRoutedOneWay ==
    \A o \in Objects :
        DiffDone(last[o]) =>
            /\ last[o].counters.conflicts = Cardinality(ConflictingIn(o, last[o]))
            /\ \A i \in ConflictingIn(o, last[o]) :
                 LET rid == PyStr(last[o].crm_records[i]["id"])
                     w == _resolve_conflict(strategy, last[o].crm_records[i],
                                            KeptRow(last[o], rid))
                 IN /\ w \in {"crm", "excel"}
                    /\ w = "crm" =>
                         /\ Cardinality(Carrying(last[o].upsert, rid)) = 1
                         /\ last[o].upsert[CHOOSE k \in Carrying(last[o].upsert, rid) : TRUE]
                              = last[o].crm_records[i]
                         /\ Carrying(last[o].update, rid) = {}
                    /\ w = "excel" =>
                         /\ Cardinality(Carrying(last[o].update, rid)) = 1
                         /\ Carrying(last[o].upsert, rid) = {}

\* a pass under newest_wins with two conflicts, one going each way
C5_Witness ==
    /\ strategy = "newest_wins"
    /\ DiffDone(last["people"])
    /\ last["people"].counters.conflicts = 2
    /\ Len(last["people"].upsert) = 1
    /\ Len(last["people"].update) = 1

\* the rows of the tabular snapshot without an id, in order
IdLess(p) == SelectSeq(p.excel_records, LAMBDA r : ~Truthy(Get(r, "id", NoneV)))

\* the payload a row without an id stands for: each non-null tracked cell,
\* unflattened without a template; no id
ExpectedPayload(o, row) ==
    [f \in {g \in Range(Fields(o)) : Get(row, g, NoneV).k # "none"} |->
        _unflatten_value(f, row[f], NoneV)]

HasValue(o, row) ==
    \E f \in DOMAIN ExpectedPayload(o, row) : Truthy(ExpectedPayload(o, row)[f])

IdLessWithValue(o, p) == SelectSeq(IdLess(p), LAMBDA r : HasValue(o, r))

\* C6, as stated: every tabular row without an id yields exactly one remote
\* create payload, which carries no id and holds unflatten(field, cell) for
\* each non-null tracked cell, and increments excel_to_crm_created by one.
C6_EveryIdLessRowCreates ==
    \A o \in Objects :
        DiffDone(last[o]) =>
            /\ Len(last[o].create) = Len(IdLess(last[o]))
            /\ last[o].counters.excel_to_crm_created = Len(IdLess(last[o]))
            /\ \A i \in 1..Len(last[o].create) :
                 last[o].create[i] = ExpectedPayload(o, IdLess(last[o])[i])

\* C6, amended: every tabular row without an id whose payload holds at
\* least one truthy value yields exactly one remote create payload, which
\* carries no id and holds unflatten(field, cell) for each non-null tracked
\* cell, and increments excel_to_crm_created by one; a row without an id
\* whose payload holds no truthy value yields no payload and is not counted.
C6_IdLessRowWithValueCreates ==
    \A o \in Objects :
        DiffDone(last[o]) =>
            /\ Len(last[o].create) = Len(IdLessWithValue(o, last[o]))
            /\ last[o].counters.excel_to_crm_created = Len(IdLessWithValue(o, last[o]))
            /\ \A i \in 1..Len(last[o].create) :
                 /\ last[o].create[i] = ExpectedPayload(o, IdLessWithValue(o, last[o])[i])
                 /\ "id" \notin DOMAIN last[o].create[i]

\* a pass over two rows without an id, one with a name and one holding only
\* an updatedAt: one payload, counted once
C6_Witness ==
    /\ DiffDone(last["people"])
    /\ Len(IdLess(last["people"])) = 2
    /\ Len(last["people"].create) = 1
    /\ "name" \in DOMAIN last["people"].create[1]
    /\ last["people"].counters.excel_to_crm_created = 1

\* C7, as stated: a tabular row whose id is absent from the remote snapshot
\* is counted in skipped and is in no remote create batch, no remote update
\* batch and no tabular upsert batch.
C7_OrphanSkipped ==
    \A o \in Objects :
        DiffDone(last[o]) =>
            /\ \A rid \in OrphanIds(last[o]) : InNoBatch(last[o], rid)
            /\ last[o].counters.skipped
                 = Cardinality(UnchangedIn(o, last[o])) + Cardinality(OrphanIds(last[o]))

\* C7, amended: a tabular row whose id is absent from the remote snapshot is
\* in no remote create batch, no remote update batch and no tabular upsert
\* batch, and it is counted in skipped unless its id is the text "None".
C7_OrphanSkippedUnlessPlaceholder ==
    \A o \in Objects :
        DiffDone(last[o]) =>
            /\ \A rid \in OrphanIds(last[o]) : InNoBatch(last[o], rid)
            /\ last[o].counters.skipped
                 = Cardinality(UnchangedIn(o, last[o]))
                   + Cardinality(OrphanIds(last[o]) \ {S("None")})

\* a pass over a sheet with two rows the remote side does not have, one
\* with the id "1" and one with the id "None": one is counted
C7_Witness ==
    \E o \in Objects :
        /\ DiffDone(last[o])
        /\ OrphanIds(last[o]) = {IdV(1), S("None")}
        /\ last[o].counters.skipped = 1
        /\ last[o].upsert = <<>> /\ last[o].create = <<>> /\ last[o].update = <<>>

\* a remote batch write of the pass failed
BatchFailed(p) == p.ran /\ (p.create_failed \/ p.update_failed)

\* nothing else went wrong in the pass: it ended in its return, or in one
\* of the two batch steps
OnlyBatchFaults(p) == p.ran /\ p.stage \in {"create", "update", "return"}

\* C8: in sync_all, a remote batch write that fails during the pass of one
\* object type does not end that pass: the pass returns its counters, the
\* loop goes on to the later object types, and when sync_all returns it
\* returns counters for every object type.
C8_BatchFailureKeepsLaterObjects ==
    \A a \in Objects :
        (BatchFailed(last[a]) /\ OnlyBatchFaults(last[a])) =>
            /\ last[a].error = "none"
            /\ a \in DOMAIN stats
            /\ stats[a] = last[a].counters
            /\ idx > Pos(a)
            /\ pc = "raised" =>
                 \E b \in Objects :
                     /\ Pos(b) > Pos(a)
                     /\ last[b].ran
                     /\ last[b].error # "none"
                     /\ ~OnlyBatchFaults(last[b])
            /\ pc = "done" =>
                 \A b \in Objects :
                     last[b].ran /\ last[b].error = "none" /\ b \in DOMAIN stats

\* sync_all returned counters for both object types although batch_create
\* failed in the pass of the first
C8_Witness ==
    /\ pc = "done"
    /\ last[SYNC_OBJECTS[1]].ran
    /\ last[SYNC_OBJECTS[1]].f.create = "fail"
    /\ last[SYNC_OBJECTS[1]].create_failed
    /\ last[SYNC_OBJECTS[2]].ran
    /\ DOMAIN stats = Objects

Calls(p, name) == {i \in 1..Len(p.log) : p.log[i] = name}

\* C9: within one pass, a failed create batch does not keep the update
\* batch from being issued, and a failed batch of either kind does not keep
\* the pass from re-fetching the remote snapshot, overwriting the sheet and
\* updating the SyncState of the object.
C9_BatchFailureKeepsRestOfPass ==
    \A o \in Objects :
        (BatchFailed(last[o]) /\ last[o].f.abort = "none") =>
            /\ (last[o].create_failed /\ last[o].update # <<>>) =>
                 Calls(last[o], "batch_update") # {}
            /\ Cardinality(Calls(last[o], "get_all_records")) = 2
            /\ Calls(last[o], "_update_state_from_crm") # {}
            /\ Calls(last[o], "write_excel") # {}
            /\ o \in DOMAIN state
            /\ state[o] = _update_state_from_crm(last[o].refreshed, last[o].now)
            /\ last[o].error = "none" =>
                 sheet[o] = write_excel(o, last[o].refreshed).rows

\* a pass in which both batches failed and which still re-fetched,
\* overwrote the sheet and returned
C9_Witness ==
    \E o \in Objects :
        /\ last[o].ran
        /\ last[o].create_failed
        /\ last[o].update_failed
        /\ last[o].error = "none"
        /\ Calls(last[o], "write_excel") # {}
        /\ o \in DOMAIN state

\* C10: when the create batch of a pass fails the returned
\* excel_to_crm_created is 0, and when the update batch fails the returned
\* excel_to_crm_updated is 0.
C10_FailedBatchCountsZero ==
    \A o \in Objects :
        (last[o].ran /\ last[o].error = "none" /\ o \in DOMAIN stats) =>
            /\ (last[o].create # <<>> /\ last[o].f.create = "fail") =>
                 stats[o].excel_to_crm_created = 0
            /\ (last[o].update # <<>> /\ last[o].f.update = "fail") =>
                 stats[o].excel_to_crm_updated = 0

(***************************************************************************)
(* The stores and the SyncState after a pass                               *)
(***************************************************************************)

\* the pass on o returned
Completed(o) == last[o].ran /\ last[o].error = "none"

\* row i of the sheet of o holds the flattened values of the record
RowShows(o, i, record) ==
    \A c \in Range(_all_columns(o)) :
        sheet[o][i][c] = _flatten_value(Get(record, c, NoneV))

\* C11: at the end of every completed sync pass, a remote batch having
\* failed or not, the sheet holds exactly one row per record of the
\* re-fetched remote snapshot, in its order, each row the flattened values of
\* its record; no row without an id and no row of an id the remote side
\* lacks remains.
C11_SheetIsRefetchedSnapshot ==
    \A o \in Objects :
        (Completed(o) /\ last[o].op = "sync") =>
            /\ last[o].refreshed = crm[o]
            /\ Len(sheet[o]) = Len(last[o].refreshed)
            /\ \A i \in 1..Len(sheet[o]) :
                 /\ RowShows(o, i, last[o].refreshed[i])
                 /\ Truthy(sheet[o][i]["id"])
                 /\ PyStr(sheet[o][i]["id"]) \in IdsOf(crm[o])

\* a completed pass whose create batch failed, over a sheet that held a row
\* without an id and a row of an id the remote side lacks: the sheet now
\* holds the one remote record
C11_Witness ==
    \E o \in Objects :
        /\ Completed(o) /\ last[o].op = "sync"
        /\ last[o].create_failed
        /\ OrphanIds(last[o]) # {}
        /\ Len(last[o].excel_records) = 2
        /\ Len(sheet[o]) = 1

\* the sheet of o holds what the pass read from it
SheetAsRead(o) ==
    /\ Len(sheet[o]) = Len(last[o].excel_records)
    /\ \A i \in 1..Len(sheet[o]) :
         \A c \in Range(_all_columns(o)) : sheet[o][i][c] = last[o].excel_records[i][c]

\* C12: a sync_all run right after a completed one, with no edit in between,
\* classifies every record as unchanged: no conflict, nothing for the sheet,
\* nothing created and nothing updated are counted, no remote write is
\* issued, and both stores keep their content.
C12_SecondRunChangesNothing ==
    \A o \in Objects :
        (again /\ DiffDone(last[o])) =>
            /\ last[o].counters =
                 [ZeroCounters EXCEPT !.skipped = Len(last[o].crm_records)]
            /\ last[o].upsert = <<>> /\ last[o].create = <<>> /\ last[o].update = <<>>
            /\ Calls(last[o], "batch_create") = {}
            /\ Calls(last[o], "batch_update") = {}
            /\ Calls(last[o], "upsert_excel_rows") = {}
            /\ crm[o] = last[o].crm_records
            /\ SheetAsRead(o)

\* the second run returned, after a first run that created a record and
\* patched another: both are now counted as unchanged
C12_Witness ==
    /\ again
    /\ pc = "done"
    /\ Completed("people")
    /\ Len(crm["people"]) = 3
    /\ clock = MaxTime + 3
    /\ stats["people"].skipped = 3


\* a pass of sync_all or of pull for the object came to its end
Refreshed(o) == Completed(o) /\ last[o].op \in {"sync", "pull"}

\* the table of the object has the id of record i of the snapshot, under the
\* record's updatedAt as a string when it carries one
HasEntry(table, record) ==
    /\ PyStr(record["id"]) \in DOMAIN table
    /\ Truthy(Get(record, "updatedAt", NoneV))
         => table[PyStr(record["id"])] = PyStr(record["updatedAt"])

\* C13: after a completed sync pass or pull for an object type, the
\* SyncState of the object has an entry for every id of the snapshot fetched
\* last, which is the remote content after the writes of the pass (so the
\* records created remotely in the pass have an entry), and the entry of a
\* record carrying an updatedAt is that marker as a string.
C13_StateCoversSnapshot ==
    \A o \in Objects :
        Refreshed(o) =>
            /\ o \in DOMAIN state
            /\ last[o].refreshed = crm[o]
            /\ \A i \in WithId(last[o].refreshed) :
                   HasEntry(state[o], last[o].refreshed[i])

\* a sync pass created a record remotely and came to its end: the snapshot
\* fetched last has two records and the created one has its entry
C13_Witness ==
    \E o \in Objects :
        /\ Refreshed(o)
        /\ last[o].op = "sync"
        /\ last[o].create # <<>>
        /\ ~last[o].create_failed
        /\ Len(last[o].refreshed) > Len(last[o].crm_records)
        /\ Len(last[o].refreshed) >= 2
        /\ o \in DOMAIN state
        /\ IdsOf(last[o].refreshed) \ IdsOf(last[o].crm_records) \subseteq DOMAIN state[o]

\* C14: a sync pass or a pull never removes an entry of the SyncState: an
\* id recorded for an object type stays recorded in every step, also when
\* the remote snapshot no longer has it.
C14_EntriesNeverRemoved ==
    [][\A o \in DOMAIN state :
          /\ o \in DOMAIN state'
          /\ DOMAIN state[o] \subseteq DOMAIN state'[o]]_vars


(***************************************************************************)
(* The state file                                                          *)
(***************************************************************************)

\* the step rebuilds one object's table from the remote content, as
\* _update_state_from_crm does; the engine has no other write to its state
Rebuilds ==
    \E o \in Objects :
        /\ pc \in {"sync_all", "pull"}
        /\ state' = DictSet(state, o, _update_state_from_crm(crm'[o], clock'))

\* C15: when sync_all, pull or push returns normally the state file has
\* been written and holds the engine's in-memory SyncState; the in-memory
\* state is never read again from the file after construction: it changes
\* only by a pass rebuilding an object's table from the remote snapshot.
C15_ReturnLeavesStateWritten ==
    /\ [](pc = "done" => stateFile = state)
    /\ [][state' # state => Rebuilds]_vars

\* an operation returned after a pass changed the table of an object
C15_Witness ==
    /\ pc = "done"
    /\ stateFile = state
    /\ \E o \in Objects :
          /\ Completed(o)
          /\ o \in DOMAIN state
          /\ state[o] # StaleTable
          /\ state[o] # <<>>

\* C16: the state write is atomic: when the process is stopped during the
\* write, the state file holds the complete previous content or the
\* complete new content.
C16_StateWriteAtomic ==
    pc = "killed" => (stateFile = state \/ stateFile \in InitialStateFiles)


(***************************************************************************)
(* The classification as a function of the two snapshots                   *)
(***************************************************************************)

\* C17: the outcome of a sync pass does not depend on the SyncState: with
\* the same remote and tabular snapshots, the classification made under any
\* content of the SyncState gives the classifications, the write batches and
\* the counters that the one made under the engine's content gave.
C17_OutcomeIgnoresState ==
    pc = "done" =>
        \A st \in InitialStateFiles :
            winner.given = DiffWith(args.obj, strategy, args.crm_records,
                                    args.excel_records, last_sync_ids(st, args.obj))

\* a classification made with a table that records an id of the remote
\* snapshot, scheduling that record for the sheet
C17_Witness ==
    /\ pc = "done"
    /\ args.obj \in DOMAIN state
    /\ state[args.obj] = StaleTable
    /\ winner.given.error = "none"
    /\ winner.given.upsert # <<>>
    /\ IdsOf(winner.given.upsert) \cap DOMAIN StaleTable # {}

\* no id occurs twice in the list
UniqueIds(records) ==
    \A i, j \in WithId(records) :
        PyStr(records[i]["id"]) = PyStr(records[j]["id"]) => i = j

\* both classifications end alike, with the same counters and the same
\* records scheduled for each of the three writes
SameAsCollections(D, E) ==
    /\ (D.error = "none") = (E.error = "none")
    /\ D.error = "none" =>
          /\ D.counters = E.counters
          /\ Range(D.upsert) = Range(E.upsert)
          /\ Range(D.create) = Range(E.create)
          /\ Range(D.update) = Range(E.update)

\* C18 as stated: for any remote and any tabular record list, reordering the
\* records within either list changes neither the counters nor the sets of
\* records scheduled for tabular upsert, remote create and remote update.
C18_OrderIndependent ==
    pc = "done" => SameAsCollections(winner.given, winner.permuted)

\* C18 amended: the same, for lists in which no id occurs twice.
C18_OrderIndependentUniqueIds ==
    (/\ pc = "done"
     /\ UniqueIds(args.crm_records)
     /\ UniqueIds(args.excel_records)) =>
        SameAsCollections(winner.given, winner.permuted)

\* two rows without an id and with different cells, classified in both
\* orders: the create batches hold the same payloads in another order
C18_Witness ==
    /\ pc = "done"
    /\ UniqueIds(args.crm_records)
    /\ UniqueIds(args.excel_records)
    /\ Len(args.excel_records) = 2
    /\ winner.q = <<2, 1>>
    /\ winner.given.error = "none"
    /\ winner.given.create # winner.permuted.create
    /\ Range(winner.given.create) = Range(winner.permuted.create)


(***************************************************************************)
(* The reduced modes                                                       *)
(***************************************************************************)

\* C19: after pull completes for an object type, the sheet holds exactly
\* one flattened row per record of the remote snapshot and nothing else (no
\* row present before remains, the rows without an id included), the
\* SyncState of the object is rebuilt from that snapshot, and no remote
\* create or update has been issued.
C19_PullOverwritesSheet ==
    \A o \in Objects :
        (Completed(o) /\ last[o].op = "pull") =>
            /\ Len(sheet[o]) = Len(last[o].crm_records)
            /\ \A i \in 1..Len(sheet[o]) : RowShows(o, i, last[o].crm_records[i])
            /\ o \in DOMAIN state
            /\ state[o] = _update_state_from_crm(last[o].crm_records, last[o].now)
            /\ crm[o] = last[o].crm_records
            /\ Calls(last[o], "batch_create") = {}
            /\ Calls(last[o], "batch_update") = {}
            /\ nextId = 3
            /\ o \in DOMAIN stats
            /\ stats[o] = [pulled |-> Len(last[o].crm_records)]

\* a pull over a sheet that held a row without an id and more rows than
\* the remote side has records
C19_Witness ==
    \E o \in Objects :
        /\ Completed(o) /\ last[o].op = "pull"
        /\ Len(last[o].sheet_before) = 2
        /\ Len(last[o].crm_records) = 1
        /\ Len(sheet[o]) = 1
        /\ \E i \in 1..2 : ~Truthy(last[o].sheet_before[i]["id"])
        /\ state[o] # StaleTable

\* the walk of a push pass came to its end
PushDone(p) == p.ran /\ p.op = "push" /\ p.stage \notin {"fetch", "diff"}

\* the remote record carrying the id
RemoteOf(p, rid) ==
    p.crm_records[Max({i \in WithId(p.crm_records) : PyStr(p.crm_records[i]["id"]) = rid})]

\* the rows whose id exists remotely and whose tracked fields differ
PushDiffering(o, p) ==
    SelectSeq(p.excel_records,
              LAMBDA r : /\ Truthy(Get(r, "id", NoneV))
                         /\ PyStr(r["id"]) \in IdsOf(p.crm_records)
                         /\ Differs(o, RemoteOf(p, PyStr(r["id"])), r))

ExpectedPatch(o, p, row) ==
    DictSet(_excel_to_crm_payload(row, RemoteOf(p, PyStr(row["id"])), Fields(o)),
            "id", PyStr(row["id"]))

\* the rows without an id whose payload has a key
IdLessWithPayload(o, p) ==
    SelectSeq(IdLess(p), LAMBDA r : DOMAIN ExpectedPayload(o, r) # {})

\* what a push pass does with the rows that differ, with the sheet and with
\* the SyncState, the rows given being those it creates remotely
PushKeepsTabular(o, p, new_rows) ==
    /\ Len(p.update) = Len(PushDiffering(o, p))
    /\ p.counters.updated = Len(p.update)
    /\ \A i \in 1..Len(p.update) :
         p.update[i] = ExpectedPatch(o, p, PushDiffering(o, p)[i])
    /\ Len(p.create) = Len(new_rows)
    /\ p.counters.created = Len(p.create)
    /\ \A i \in 1..Len(p.create) : p.create[i] = ExpectedPayload(o, new_rows[i])
    /\ p.create # <<>> => Calls(p, "batch_create") # {}
    /\ (p.update # <<>> /\ ~p.create_failed) => Calls(p, "batch_update") # {}
    /\ Calls(p, "write_excel") = {}
    /\ Len(sheet[o]) >= Len(p.sheet_before)
    /\ \A i \in 1..Len(p.sheet_before) : sheet[o][i] = p.sheet_before[i]

\* C20 as stated: in push mode every tabular row whose id exists remotely
\* and whose tracked fields differ is sent as a remote update whatever the
\* strategy and the markers, every row without an id and with a non-empty
\* payload is sent as a remote create, no remote value is written over an
\* existing row of the sheet and the sheet is not overwritten.
C20_PushTabularAuthoritative ==
    \A o \in Objects :
        PushDone(last[o]) =>
            PushKeepsTabular(o, last[o], IdLessWithPayload(o, last[o]))

\* C20 amended: the same, the rows created remotely being the rows without
\* an id whose payload holds at least one truthy value.
C20_PushTabularAuthoritativeTruthy ==
    \A o \in Objects :
        PushDone(last[o]) =>
            PushKeepsTabular(o, last[o], IdLessWithValue(o, last[o]))

\* a push that returned under a strategy and markers that favour the remote
\* side, having sent an update for a differing row and a create for a row
\* without an id
C20_Witness ==
    \E o \in Objects :
        /\ Completed(o) /\ last[o].op = "push"
        /\ last[o].update # <<>>
        /\ last[o].create # <<>>
        /\ Len(sheet[o]) = 3
        /\ _resolve_conflict(strategy, RemoteOf(last[o], last[o].update[1]["id"]),
                             PushDiffering(o, last[o])[1]) = "crm"


(***************************************************************************)
(* The value codec applied alone: _flatten_value to a value of the remote  *)
(* side, _unflatten_value to a cell, and the two one after the other       *)
(***************************************************************************)
NameValues ==
    {DictV([firstName |-> S("Al"), lastName |-> S("Smith")]),
     DictV([firstName |-> NoneV, lastName |-> S("Smith")]),
     DictV([firstName |-> Text(<<W("Mary"), SP, W("Ann")>>), lastName |-> EmptyStr]),
     DictV([lastName |-> S("Smith")])}

ContactValues ==
    {DictV([primaryEmail |-> S("a@x")]),
     DictV([primaryEmail |-> NoneV]),
     DictV([primaryPhoneNumber |-> S("555")]),
     DictV([primaryLinkUrl |-> S("u"), primaryLinkLabel |-> S("l")]),
     DictV([primaryLinkLabel |-> S("l")])}

CurrencyValues ==
    {DictV([amountMicros |-> m, currencyCode |-> S("EUR")]) :
        m \in {IntV(2500000), IntV(2010000), IntV(0), NoneV, S("abc")}}
    \cup {DictV([amountMicros |-> IntV(2500000)])}

AddressValues ==
    {DictV([addressStreet1 |-> S("Main")]),
     DictV([addressStreet1 |-> S("Main"), addressCity |-> S("Paris")]),
     DictV([addressStreet1 |-> S("Main"), addressPostcode |-> IntV(75001)]),
     DictV([addressStreet1 |-> NoneV, addressCity |-> NoneV])}

OtherValues ==
    {NoneV, S("Bo"), EmptyStr, IntV(7), FloatV(2500000),
     DictV(<<>>), DictV([foo |-> S("x")])}

CodecValues ==
    NameValues \cup ContactValues \cup CurrencyValues \cup AddressValues
    \cup OtherValues

\* what a cell can hold: nothing, text, numbers written as text, numbers
CodecCells ==
    {NoneV, EmptyStr, S("abc"), Text(<<W("Al"), SP, W("Smith")>>),
     Text(<<FTok(3750000)>>), Text(<<FTok(2010000)>>), S("inf"), S("nan"),
     FloatV(3750000), FloatV(2010000), IntV(3), IntV(0)}

CodecFields ==
    UNION {Range(Fields(o)) : o \in Objects} \cup {"amount", "email", "address"}

InitCodec ==
    /\ args \in [field : CodecFields, value : CodecValues, cell : CodecCells]
    /\ winner = "unset"
    /\ pc = "idle"
    /\ strategy = "newest_wins"
    /\ again = FALSE
    /\ NoSchedule
    /\ crm = [o \in Objects |-> <<>>]
    /\ sheet = [o \in Objects |-> <<>>]
    /\ state = <<>>
    /\ stateFile = <<>>
    /\ stats = <<>>
    /\ idx = 0
    /\ clock = MaxTime + 1
    /\ nextId = 3
    /\ last = [o \in Objects |-> NoPass]

\* _flatten_value(raw)
FlattenValue ==
    /\ pc = "idle"
    /\ pc' = "flattened"
    /\ winner' = [flat |-> _flatten_value(args.value)]
    /\ UNCHANGED <<strategy, crm, sheet, state, stateFile, stats, idx, clock,
                   nextId, last, args, again, sched>>

\* _unflatten_value(f, xl_val, existing), existing being the remote value of
\* the field or None
UnflattenCell ==
    /\ pc = "idle"
    /\ pc' = "unflattened"
    /\ \E existing \in {NoneV, args.value} :
         winner' = [existing |-> existing,
                    out |-> _unflatten_value(args.field, args.cell, existing)]
    /\ UNCHANGED <<strategy, crm, sheet, state, stateFile, stats, idx, clock,
                   nextId, last, args, again, sched>>

\* _flatten_value of what _unflatten_value gave; an error ends the chain
FlattenAgain(unflat) == IF IsRaise(unflat) THEN unflat ELSE _flatten_value(unflat)

UnflattenThenFlatten(field, flat, value) ==
    IF IsRaise(flat) THEN flat
    ELSE FlattenAgain(_unflatten_value(field, flat, value))

\* flatten(unflatten(f, flatten(v), v))
RoundTrip ==
    /\ pc = "idle"
    /\ pc' = "round_trip"
    /\ winner' = [flat |-> _flatten_value(args.value),
                  back |-> UnflattenThenFlatten(args.field,
                                                _flatten_value(args.value),
                                                args.value)]
    /\ UNCHANGED <<strategy, crm, sheet, state, stateFile, stats, idx, clock,
                   nextId, last, args, again, sched>>

NextCodec == FlattenValue \/ UnflattenCell \/ RoundTrip

SpecCodec == InitCodec /\ [][NextCodec]_vars

\* C21: _flatten_value is total: for every value, the dicts with null,
\* non-numeric or numeric sub-values included, it returns a value and does
\* not raise.
C21_FlattenNeverRaises ==
    pc = "flattened" => ~IsRaise(winner.flat)

\* a dict of one of the six known shapes
KnownShape(v) ==
    /\ IsDict(v)
    /\ ShapeOf(v.d) \in {"name", "email", "phone", "link", "label", "currency",
                         "address"}

\* C22: for every value v of a known shape and every field name f,
\* flatten(unflatten(f, flatten(v), v)) equals flatten(v).
C22_RoundTripStable ==
    (pc = "round_trip" /\ KnownShape(args.value)) => winner.back = winner.flat

\* the call is about a currency: the template is one or, without a
\* template, the field name is taken for one
CurrencyCall ==
    IF IsDict(winner.existing) THEN TemplateOf(winner.existing.d) = "currency"
    ELSE Lower(args.field) \in {"annualrecurringrevenue", "amount"}

\* C23: for a currency field, with or without a template, unflatten of a
\* cell that cannot be parsed as a number does not raise and returns a
\* currency shape whose amountMicros is 0.
C23_UnparsableGivesZero ==
    (pc = "unflattened" /\ CurrencyCall /\ IsRaise(ToFloat(args.cell))) =>
        /\ IsDict(winner.out)
        /\ "amountMicros" \in DOMAIN winner.out.d
        /\ winner.out.d["amountMicros"] = IntV(0)

\* the cell holds a decimal number, as a number or as text
DecimalCell == ~IsRaise(ToFloat(args.cell)) /\ ToFloat(args.cell).t = <<>>

\* C24: with a template carrying amountMicros, unflatten of a cell holding
\* the decimal d returns a shape whose amountMicros is the integer
\* d x 1,000,000 and whose other keys are those of the template with the
\* template's values.
C24_MicrosExact ==
    (/\ pc = "unflattened"
     /\ IsDict(winner.existing)
     /\ TemplateOf(winner.existing.d) = "currency"
     /\ DecimalCell) =>
        /\ IsDict(winner.out)
        /\ winner.out.d["amountMicros"] = IntV(ToFloat(args.cell).n)
        /\ \A key \in DOMAIN winner.existing.d \ {"amountMicros"} :
             /\ key \in DOMAIN winner.out.d
             /\ winner.out.d[key] = winner.existing.d[key]


(***************************************************************************)
(* TwentyClient._request: one HTTP exchange of the client, with its retry  *)
(***************************************************************************)

\* what session.request gives: a response with a status code, or an
\* exception of the transport (status 0)
Response(status) == [status |-> status, error |-> "none"]
NetworkFailure(error) == [status |-> 0, error |-> error]

Responses ==
    {Response(c) : c \in {200, 201, 204, 400, 401, 404, 429, 500, 503}}
    \cup {NetworkFailure(e) : e \in {"ConnectionError", "Timeout"}}

\* the Retry-After header of a 429: absent, seconds, or an HTTP date
RetryAfterHeaders == {"absent", "1", "Wed, 21 Oct 2026 07:28:00 GMT"}

\* float(resp.headers.get("Retry-After", 5))
RetryAfterSeconds(header) ==
    CASE header = "absent" -> [error |-> "none", seconds |-> 5]
      [] header = "1" -> [error |-> "none", seconds |-> 1]
      [] OTHER -> [error |-> "ValueError", seconds |-> 0]

\* how a call ends: kind "json" (resp.json()), "none" (204) or "raise"
Returned(kind, status, requests, slept_for) ==
    [kind |-> kind, error |-> "none", status |-> status,
     requests |-> requests, slept_for |-> slept_for]
Raised(error, status, requests, slept_for) ==
    [kind |-> "raise", error |-> error, status |-> status,
     requests |-> requests, slept_for |-> slept_for]

\* if not resp.ok: raise; if resp.status_code == 204: return None;
\* return resp.json()
Answer(resp, requests, slept_for) ==
    IF resp.status >= 400
    THEN Raised("TwentyAPIError", resp.status, requests, slept_for)
    ELSE IF resp.status = 204 THEN Returned("none", resp.status, requests, slept_for)
    ELSE Returned("json", resp.status, requests, slept_for)

\* TwentyClient._request, first and second being what the service answers
\* to the first and to a second request
_request(first, second, header) ==
    IF first.error # "none" THEN Raised(first.error, 0, 1, 0)
    ELSE IF first.status = 429
    THEN IF RetryAfterSeconds(header).error # "none"
         THEN Raised(RetryAfterSeconds(header).error, 429, 1, 0)
         ELSE IF second.error # "none"
              THEN Raised(second.error, 0, 2, RetryAfterSeconds(header).seconds)
              ELSE Answer(second, 2, RetryAfterSeconds(header).seconds)
    ELSE Answer(first, 1, 0)

InitRequest ==
    /\ strategy \in Strategies
    /\ crm = [o \in Objects |-> <<>>]
    /\ sheet = [o \in Objects |-> <<>>]
    /\ state = <<>>
    /\ stateFile = <<>>
    /\ stats = <<>>
    /\ pc = "idle"
    /\ idx = 0
    /\ clock = MaxTime + 1
    /\ nextId = 3
    /\ last = [o \in Objects |-> NoPass]
    /\ args \in [method : {"GET", "POST", "PATCH", "DELETE"},
                 first : Responses, second : Responses,
                 header : RetryAfterHeaders]
    /\ winner = "unset"
    /\ again = FALSE
    /\ NoSchedule

\* one call of the client by the engine
Request ==
    /\ pc = "idle"
    /\ pc' = "requested"
    /\ winner' = _request(args.first, args.second, args.header)
    /\ UNCHANGED <<strategy, crm, sheet, state, stateFile, stats, idx, clock,
                   nextId, last, args, again, sched>>

NextRequest == Request

SpecRequest == InitRequest /\ [][NextRequest]_vars

(***************************************************************************)
(* The scheduler and the shutdown signal                                   *)
(***************************************************************************)

\* C25: in schedule mode, once the shutdown flag is set no further sync
\* pass is started and the scheduler loop ends; when the flag is set during
\* the sleep between two passes, no further sleep increment is taken.
C25_ShutdownStopsScheduler ==
    /\ [][_shutdown => ~(pc # "sync_all" /\ pc' = "sync_all")]_vars
    /\ [][(pc = "sleeping" /\ _shutdown) => slept' = slept]_vars
    /\ (_shutdown ~> pc = "stopped")

\* the signal arrived during a sleep that had increments left, and the
\* scheduler stopped without taking them
C25_Witness ==
    /\ pc = "stopped"
    /\ caught = "sleeping"
    /\ slept < Interval

\* no pass of the last cycle ended in an error of its own
NoPassRaised == \A o \in Objects : last[o].ran => last[o].error = "none"

\* C26: a shutdown signal that arrives while a sync pass is in flight does
\* not abort it: the scheduler leaves a pass only when sync_all returned or
\* raised, and when it stops after such a signal every object type was
\* processed and the state was saved, unless a pass raised by itself.
C26_SignalLetsPassFinish ==
    /\ [][pc = "sync_all" => pc' \in {"sync_all", "done", "raised"}]_vars
    /\ []((pc = "stopped" /\ caught = "sync_all" /\ NoPassRaised) =>
            /\ \A o \in Objects : Completed(o)
            /\ DOMAIN stats = Objects
            /\ stateFile = state)
    /\ ((pc = "sync_all" /\ _shutdown) ~> pc = "stopped")

\* the signal arrived in a cycle before its first pass wrote to the sheet;
\* the cycle wrote, went through both object types, saved, and then the
\* scheduler stopped
C26_Witness ==
    /\ pc = "stopped"
    /\ caught = "sync_all"
    /\ \A o \in Objects : Completed(o)
    /\ stateFile = state
    /\ \E o \in Objects : last[o].upsert # <<>> \/ last[o].update # <<>>


(***************************************************************************)
(* Failures of the collaborators                                           *)
(***************************************************************************)

\* the pass on o met a workbook that exists and cannot be read
Unreadable(o) == last[o].ran /\ last[o].op = "sync" /\ last[o].f.abort = "read_excel"

\* C27: when the tabular file is unreadable, the tabular snapshot is taken
\* as empty without raising: the pass puts every remote record in the
\* tabular upsert batch, issues no remote create or update, and completes.
C27_UnreadableSheetReadAsEmpty ==
    \A o \in Objects :
        Unreadable(o) =>
            /\ last[o].error = "none"
            /\ last[o].excel_records = <<>>
            /\ Len(last[o].upsert) = Len(last[o].crm_records)
            /\ last[o].create = <<>>
            /\ last[o].update = <<>>


\* the first answer to the request is a transient error: a rate limit or a
\* failure of the network
Transient(resp) == resp.error # "none" \/ resp.status = 429

\* C28: no transient remote error (HTTP 429 or a network failure) during a
\* remote call reaches the engine as an exception: the client sends the
\* request once more and the call returns a result.
C28_TransientNeverSurfaces ==
    (pc = "requested" /\ Transient(args.first)) =>
        /\ winner.kind # "raise"
        /\ winner.requests = 2


(***************************************************************************)
(* The order of the steps of sync_all                                      *)
(***************************************************************************)

\* the state file holds the table the engine has for o
Filed(o) ==
    /\ o \in DOMAIN state
    /\ o \in DOMAIN stateFile
    /\ stateFile[o] = state[o]

\* C29: in sync_all every step of an object's pass, the writing of its
\* state to the state file included, is over before the pass on the next
\* object begins: while sync_all runs, the table of every object whose pass
\* returned is in the state file.
C29_StateFiledBeforeNextObject ==
    \A o \in Objects :
        (pc = "sync_all" /\ Completed(o)) => Filed(o)

\* a write to the sheet failed in the pass on o
TabularWriteFailed(o) ==
    /\ last[o].ran
    /\ last[o].op = "sync"
    /\ last[o].stage \in {"upsert", "write_excel"}

\* C30: in a sync pass a failure of a tabular write (the upsert batch or
\* the final overwrite) is contained: sync_all does not raise, the later
\* steps of the pass and the later objects are processed, and the state is
\* written to the state file.
C30_TabularWriteFailureContained ==
    (\E o \in Objects : TabularWriteFailed(o)) =>
        /\ pc # "raised"
        /\ pc = "done" => (\A o \in Objects : last[o].ran) /\ stateFile = state


(***************************************************************************)
(* The comparison of one field, applied alone: _flatten_value of the       *)
(* remote value against the cell, both through _norm                       *)
(***************************************************************************)

\* values of a field on the remote side
ComparedValues ==
    {NoneV, EmptyStr, Text(<<SP>>), IntV(0), FloatV(0), IntV(7), S("Bo"),
     Text(<<SP, W("Bo"), SP>>), S("None"), DictV(<<>>),
     DictV([firstName |-> EmptyStr, lastName |-> NoneV]),
     DictV([firstName |-> S("Bo"), lastName |-> EmptyStr]),
     DictV([amountMicros |-> IntV(0), currencyCode |-> S("EUR")]),
     DictV([primaryEmail |-> NoneV])}

\* what the cell of the field holds
ComparedCells ==
    {NoneV, EmptyStr, Text(<<SP, SP>>), IntV(0), FloatV(0), Text(<<ITok(0)>>),
     Text(<<SP, ITok(0)>>), Text(<<FTok(0)>>), Text(<<RTok(<<>>)>>), S("[]"),
     Text(<<S("[]").t[1], SP>>), S("None"), S("Bo"), Text(<<W("Bo"), SP>>),
     IntV(7), FloatV(2500000)}

InitCompare ==
    /\ args \in [crm_val : ComparedValues, xl_val : ComparedCells]
    /\ winner = "unset"
    /\ pc = "idle"
    /\ strategy \in Strategies
    /\ again = FALSE
    /\ NoSchedule
    /\ crm = [o \in Objects |-> <<>>]
    /\ sheet = [o \in Objects |-> <<>>]
    /\ state = <<>>
    /\ stateFile = <<>>
    /\ stats = <<>>
    /\ idx = 0
    /\ clock = MaxTime + 1
    /\ nextId = 3
    /\ last = [o \in Objects |-> NoPass]

\* one turn of the loop of _fields_changed
CompareField ==
    /\ pc = "idle"
    /\ pc' = "compared"
    /\ winner' = [crm_val |-> _flatten_value(args.crm_val),
                  differs |-> FieldDiffers(_flatten_value(args.crm_val), args.xl_val)]
    /\ UNCHANGED <<strategy, crm, sheet, state, stateFile, stats, idx, clock,
                   nextId, last, args, again, sched>>

NextCompare == CompareField

SpecCompare == InitCompare /\ [][NextCompare]_vars

\* the empty values as the claim lists them: null, "", 0, "0", "0.0", "{}"
\* and "[]", whitespace around a text left aside
ListedEmpty(v) ==
    \/ v.k = "none"
    \/ v.k \in {"int", "float"} /\ v.n = 0
    \/ v.k = "str" /\ Strip(v) \in ((EmptyTexts \cup {EmptyStr}) \ {S("None")})

\* the same, the text "None" added
EmptyValue(v) == ListedEmpty(v) \/ (v.k = "str" /\ Strip(v) = S("None"))

\* C31 as stated: with null, "", 0 / "0" / "0.0", "{}" and "[]" as the empty
\* values, two empty values of a field never differ and an empty value
\* always differs from a non-empty one.
C31_EmptyValuesCompareEqual ==
    (pc = "compared" /\ ~IsRaise(winner.crm_val)) =>
        /\ (ListedEmpty(winner.crm_val) /\ ListedEmpty(args.xl_val))
              => winner.differs = "False"
        /\ (ListedEmpty(winner.crm_val) # ListedEmpty(args.xl_val))
              => winner.differs = "True"

\* C31, amended: the text "None" is an empty value too; then two empty
\* values of a field never differ, an empty value always differs from a
\* non-empty one, and whitespace around a text is ignored.
C31_EmptyValuesCompareEqualWithNone ==
    (pc = "compared" /\ ~IsRaise(winner.crm_val)) =>
        /\ (EmptyValue(winner.crm_val) /\ EmptyValue(args.xl_val))
              => winner.differs = "False"
        /\ (EmptyValue(winner.crm_val) # EmptyValue(args.xl_val))
              => winner.differs = "True"
        /\ (winner.crm_val.k = "str" /\ args.xl_val.k = "str"
            /\ Strip(winner.crm_val) = Strip(args.xl_val))
              => winner.differs = "False"

\* a remote amount of zero, flattened to 0.0, against a cell of two spaces
C31_Witness ==
    /\ pc = "compared"
    /\ winner.crm_val = FloatV(0)
    /\ args.xl_val = Text(<<SP, SP>>)
    /\ winner.differs = "False"


(***************************************************************************)
(* upsert_excel_rows applied alone to a sheet and a batch                  *)
(***************************************************************************)

\* records of a batch
MaxBatch == 2

\* the sequences over a set of at most n elements
UpTo(elements, n) == UNION {[1..k -> elements] : k \in 0..n}

\* rows of the sheet of people, with an id or without
UpsertRows ==
    {MakeRow("people", id, IsoZ(1), S("Cy"), NoneV) : id \in {NoneV, IdV(1), IdV(2)}}

\* records handed to the upsert: two that the sheet may hold, one it does
\* not hold, and two that carry no id
UpsertRecords ==
    {CrmRecord("people", 1), CrmRecord("people", 2),
     [id |-> IdV(3), updatedAt |-> IsoZ(2), name |-> NameV(S("Di"), EmptyStr)],
     [name |-> NameV(S("Ed"), EmptyStr)],
     [name |-> NameV(S("Flo"), EmptyStr)]}

InitUpsert ==
    /\ args \in [rows : UpTo(UpsertRows, MaxRows),
                 records : UpTo(UpsertRecords, MaxBatch)]
    /\ winner = "unset"
    /\ pc = "idle"
    /\ strategy = "newest_wins"
    /\ again = FALSE
    /\ NoSchedule
    /\ crm = [o \in Objects |-> <<>>]
    /\ sheet = [o \in Objects |-> <<>>]
    /\ state = <<>>
    /\ stateFile = <<>>
    /\ stats = <<>>
    /\ idx = 0
    /\ clock = MaxTime + 1
    /\ nextId = 3
    /\ last = [o \in Objects |-> NoPass]

\* upsert_excel_rows("people", records) on a sheet holding rows
UpsertRowsCall ==
    /\ pc = "idle"
    /\ pc' = "upserted"
    /\ winner' = upsert_excel_rows("people", args.rows, args.records)
    /\ UNCHANGED <<strategy, crm, sheet, state, stateFile, stats, idx, clock,
                   nextId, last, args, again, sched>>

NextUpsert == UpsertRowsCall

SpecUpsert == InitUpsert /\ [][NextUpsert]_vars

\* the key under which the upsert looks a record up
BatchKey(record) == PyStr(Get(record, "id", EmptyStr))

\* the record's id is the id of a row the sheet held before the call
MatchedRecord(record) == BatchKey(record) \in DOMAIN ExistingIdsFrom(args.rows, 1, <<>>)

\* the records of the batch that match no row, in order
UnmatchedRecords == SelectSeq(args.records, LAMBDA r : ~MatchedRecord(r))

\* the row i of the sheet carries an id of the batch
RowInBatch(i) ==
    /\ Truthy(args.rows[i]["id"])
    /\ \E k \in 1..Len(args.records) :
         BatchKey(args.records[k]) = PyStr(args.rows[i]["id"])

\* the three parts of the effect: a matched record is in the row of its id,
\* the unmatched records are one appended row each, the other rows are kept
MatchedOverwrite ==
    \A k \in 1..Len(args.records) :
        MatchedRecord(args.records[k]) =>
            winner.rows[ExistingIdsFrom(args.rows, 1, <<>>)[BatchKey(args.records[k])]]
              = RowOf("people", args.records[k])

UnmatchedAppended ==
    /\ Len(winner.rows) = Len(args.rows) + Len(UnmatchedRecords)
    /\ \A j \in 1..Len(UnmatchedRecords) :
         winner.rows[Len(args.rows) + j] = RowOf("people", UnmatchedRecords[j])

OthersKept ==
    \A i \in 1..Len(args.rows) :
        (i <= Len(winner.rows) /\ ~RowInBatch(i)) => winner.rows[i] = args.rows[i]

\* C32: upsert_excel_rows matches by id and appends otherwise: every record
\* of the batch whose id matched a row has overwritten that row, every other
\* record occupies its own appended row, every row whose id is not in the
\* batch is unchanged.
C32_UpsertMatchesOrAppends ==
    pc = "upserted" =>
        /\ ~winner.error
        /\ MatchedOverwrite
        /\ UnmatchedAppended
        /\ OthersKept


(***************************************************************************)
(* TwentyClient.batch_create and batch_update: the chunks of one call      *)
(***************************************************************************)

\* records of one chunk (60 in config.py unless the environment says else)
BATCH_SIZE == 2

\* records handed to one call
MaxSend == 5

\* what the service answers to a chunk: an error status, or a body that is
\* a list, a dict with the records under a key, or something else
ChunkAnswers == {"error", "list", "dict", "other"}

\* records[i : i + BATCH_SIZE], i counted from 0
ChunkAt(records, i) ==
    SubSeq(records, i + 1, IF i + BATCH_SIZE < Len(records) THEN i + BATCH_SIZE
                           ELSE Len(records))

\* the records the call takes from the body of an answer
\* (_extract_records, and the isinstance tests of batch_update)
Extracted(answer, chunk) == IF answer = "other" THEN <<>> ELSE chunk

InitBatch ==
    /\ args \in [op : {"batch_create", "batch_update"}, n : 0..MaxSend]
    /\ winner = "unset"
    /\ pc = "idle"
    /\ strategy = "newest_wins"
    /\ again = FALSE
    /\ NoSchedule
    /\ crm = [o \in Objects |-> <<>>]
    /\ sheet = [o \in Objects |-> <<>>]
    /\ state = <<>>
    /\ stateFile = <<>>
    /\ stats = <<>>
    /\ idx = 0
    /\ clock = MaxTime + 1
    /\ nextId = 3
    /\ last = [o \in Objects |-> NoPass]

\* the call begins: created (or updated) = [], i = 0; sent lists the chunks
\* requested so far and applied the records the service has taken
BatchCall ==
    /\ pc = "idle"
    /\ pc' = "sending"
    /\ winner' = [records |-> [j \in 1..args.n |-> j], i |-> 0, sent |-> <<>>,
                  applied |-> <<>>, out |-> <<>>, error |-> "none"]
    /\ UNCHANGED <<strategy, crm, sheet, state, stateFile, stats, idx, clock,
                   nextId, last, args, again, sched>>

\* a client that logs the failure of a chunk and goes on with the next one
ChunkRefusedSkipped(w, chunk) ==
    [w EXCEPT !.i = @ + BATCH_SIZE, !.sent = Append(@, chunk)]

\* _request raised for the chunk: the error leaves the call
ChunkRefused(w, chunk) ==
    [w EXCEPT !.sent = Append(@, chunk), !.error = "TwentyAPIError"]

\* the service took the chunk
ChunkTaken(w, chunk, answer) ==
    [w EXCEPT !.i = @ + BATCH_SIZE, !.sent = Append(@, chunk),
              !.applied = @ \o chunk, !.out = @ \o Extracted(answer, chunk)]

\* one turn of the loop: for i in range(0, len(records), BATCH_SIZE)
SendChunk ==
    /\ pc = "sending"
    /\ winner.i < Len(winner.records)
    /\ \E answer \in ChunkAnswers :
         /\ winner' = IF answer = "error"
                      THEN ChunkRefused(winner, ChunkAt(winner.records, winner.i))
                      ELSE ChunkTaken(winner, ChunkAt(winner.records, winner.i), answer)
         /\ pc' = IF winner'.error # "none" THEN "raised" ELSE pc
    /\ UNCHANGED <<strategy, crm, sheet, state, stateFile, stats, idx, clock,
                   nextId, last, args, again, sched>>

\* return created (or updated)
ReturnBatch ==
    /\ pc = "sending"
    /\ winner.i >= Len(winner.records)
    /\ pc' = "returned"
    /\ UNCHANGED <<strategy, crm, sheet, state, stateFile, stats, idx, clock,
                   nextId, last, args, winner, again, sched>>

NextBatch == BatchCall \/ SendChunk \/ ReturnBatch

SpecBatch == InitBatch /\ [][NextBatch]_vars

\* the chunks one after the other
RECURSIVE Flat(_)
Flat(chunks) == IF chunks = <<>> THEN <<>> ELSE Head(chunks) \o Flat(Tail(chunks))

\* the chunks sent are consecutive pieces of the records, in order, all of
\* BATCH_SIZE records but the one that ends the records
ConsecutiveChunks(w) ==
    /\ Flat(w.sent) = SubSeq(w.records, 1, Len(Flat(w.sent)))
    /\ \A c \in 1..Len(w.sent) :
         /\ Len(w.sent[c]) \in 1..BATCH_SIZE
         /\ Len(w.sent[c]) < BATCH_SIZE => (c = Len(w.sent) /\ Flat(w.sent) = w.records)

\* C33: batch_create and batch_update send the records as consecutive
\* chunks of at most BATCH_SIZE, in order, each record in one chunk; when a
\* chunk fails the error is raised, the chunks before it stay applied and
\* no chunk after it is sent.
C33_ChunksInOrderStopAtFailure ==
    pc \in {"sending", "returned", "raised"} =>
        /\ ConsecutiveChunks(winner)
        /\ pc # "raised" => winner.applied = Flat(winner.sent)
        /\ pc = "returned" => Flat(winner.sent) = winner.records
        /\ pc = "raised" =>
             /\ winner.error = "TwentyAPIError"
             /\ winner.applied = Flat(SubSeq(winner.sent, 1, Len(winner.sent) - 1))

\* the second of three chunks failed: the first is applied, the third unsent
C33_Witness ==
    /\ pc = "raised"
    /\ args.n = MaxSend
    /\ Len(winner.sent) = 2
    /\ winner.applied = ChunkAt(winner.records, 0)


(***************************************************************************)
(* TwentyClient.get_all_records: the pages of one object                   *)
(***************************************************************************)

\* pages the service holds for the object, and records of one page
MaxPages == 3
MaxPageLen == 2

\* the service: page p holds sizes[p] records and is followed by another
\* page unless it is the last; its endCursor names the page (the last page
\* may come without one).  Cursor 0 stands for None.
PageRecords(sizes, p) == [j \in 1..sizes[p] |-> <<p, j>>]

PageAnswer(sizes, p, last_has_cursor) ==
    [page |-> p,
     records |-> PageRecords(sizes, p),
     hasNextPage |-> p < Len(sizes),
     endCursor |-> IF p < Len(sizes) \/ last_has_cursor THEN p ELSE 0]

\* list_records: "starting_after" is sent only for a cursor that is truthy,
\* and the service then answers with the page that follows it
PageAfter(cursor) == IF cursor = 0 THEN 1 ELSE cursor + 1

\* a loop that takes the cursor for the number of the next page
CursorAhead(resp) == resp.endCursor + 1

\* cursor = page_info.get("endCursor")
NextCursor(resp) == resp.endCursor

\* the locals of the call before its first request: cursors lists the cursor
\* of each request made and pages the page each was answered with
NoPages == [all_records |-> <<>>, cursor |-> 0, cursors |-> <<>>, pages |-> <<>>]

InitPages ==
    /\ args \in [sizes : UNION {[1..n -> 0..MaxPageLen] : n \in 1..MaxPages},
                 last_has_cursor : BOOLEAN]
    /\ winner = NoPages
    /\ pc = "idle"
    /\ strategy = "newest_wins"
    /\ again = FALSE
    /\ NoSchedule
    /\ crm = [o \in Objects |-> <<>>]
    /\ sheet = [o \in Objects |-> <<>>]
    /\ state = <<>>
    /\ stateFile = <<>>
    /\ stats = <<>>
    /\ idx = 0
    /\ clock = MaxTime + 1
    /\ nextId = 3
    /\ last = [o \in Objects |-> NoPass]

\* all_records = []; cursor = None
GetAllCall ==
    /\ pc = "idle"
    /\ pc' = "paging"
    /\ winner' = NoPages
    /\ UNCHANGED <<strategy, crm, sheet, state, stateFile, stats, idx, clock,
                   nextId, last, args, again, sched>>

\* the request is noted
Requested(w, resp) ==
    [w EXCEPT !.cursors = Append(@, w.cursor), !.pages = Append(@, resp.page)]

\* all_records.extend(records), and the cursor for the next turn
Extended(w, resp) ==
    [w EXCEPT !.all_records = @ \o resp.records, !.cursor = NextCursor(resp)]

\* the turn of the loop, from the response to its request
PageTurn(w, resp) ==
    /\ winner' = IF resp.records = <<>> THEN Requested(w, resp)
                 ELSE Extended(Requested(w, resp), resp)
    /\ pc' = IF resp.records = <<>> \/ ~resp.hasNextPage THEN "returned" ELSE pc

\* one turn of while True: a request, then a break or the next cursor
FetchPage ==
    /\ pc = "paging"
    /\ PageAfter(winner.cursor) <= Len(args.sizes)
    /\ PageTurn(winner, PageAnswer(args.sizes, PageAfter(winner.cursor),
                                   args.last_has_cursor))
    /\ UNCHANGED <<strategy, crm, sheet, state, stateFile, stats, idx, clock,
                   nextId, last, args, again, sched>>

NextPages == GetAllCall \/ FetchPage

\* the call keeps running: the next request is made
SpecPages == InitPages /\ [][NextPages]_vars /\ WF_vars(NextPages)

\* the page p ends the loop: it has no records or no page after it
EndsLoop(p) == args.sizes[p] = 0 \/ p = Len(args.sizes)

\* the records of the pages 1..k, page after page
RECURSIVE RecordsUpTo(_, _)
RecordsUpTo(sizes, k) ==
    IF k = 0 THEN <<>> ELSE RecordsUpTo(sizes, k - 1) \o PageRecords(sizes, k)

\* C34: get_all_records terminates and returns every record of every page
\* once, in page order: each request after the first carries the endCursor
\* of the response before it, the loop ends at the first response without
\* records or without a next page, and no page is requested twice.
C34_PagesOnceInOrder ==
    /\ [](pc \in {"paging", "returned"} =>
            /\ \A j \in 1..Len(winner.pages) : winner.pages[j] = j
            /\ \A j \in 1..Len(winner.cursors) :
                 winner.cursors[j] =
                    IF j = 1 THEN 0
                    ELSE PageAnswer(args.sizes, winner.pages[j - 1],
                                    args.last_has_cursor).endCursor
            /\ winner.all_records = RecordsUpTo(args.sizes, Len(winner.pages))
            /\ \A j \in 1..Len(winner.pages) :
                 EndsLoop(j) => (j = Len(winner.pages) /\ pc = "returned")
            /\ pc = "returned" => EndsLoop(Len(winner.pages)))
    /\ (pc = "paging" ~> pc = "returned")

\* three pages were fetched, one request each, and all their records returned
C34_Witness ==
    /\ pc = "returned"
    /\ winner.pages = <<1, 2, 3>>
    /\ Len(winner.all_records) = 3 * MaxPageLen


(***************************************************************************)
(* The scheduler and a cycle that raises                                   *)
(***************************************************************************)

\* C35: in schedule mode an exception raised by a sync cycle does not stop
\* the scheduler: from a cycle that raised the scheduler goes to its sleep
\* unless shutdown was requested, leaves the sleep only after the whole
\* interval or on shutdown, and then starts the next cycle.
C35_RaisedCycleIsRetried ==
    /\ [][pc = "raised" =>
            /\ pc' \in {"raised", "sleeping", "stopped"}
            /\ pc' = "stopped" => _shutdown]_vars
    /\ [][(pc = "sleeping" /\ pc' = "loop") => (slept = Interval \/ _shutdown)]_vars
    /\ ((pc = "raised" /\ cycles < MaxCycles) ~> (pc = "sync_all" \/ _shutdown))

\* the second cycle runs, after a first one that raised in its first pass
\* (it left no counters) and after the whole interval
C35_Witness ==
    /\ pc = "sync_all"
    /\ cycles = 2
    /\ stats = <<>>
    /\ slept = Interval
    /\ ~_shutdown


(***************************************************************************)
(* What a pass leaves of the rows it selected for the remote side          *)
(***************************************************************************)

\* the sheet of o holds a row with the tracked cells of xl_rec
RowStillThere(o, xl_rec) ==
    \E j \in 1..Len(sheet[o]) :
        \A c \in Range(Fields(o)) : sheet[o][j][c] = Get(xl_rec, c, NoneV)

\* C36: no tabular data selected for the remote side is dropped by a sync
\* pass: after a completed pass, for every row scheduled for remote create
\* or remote update, the remote batch succeeded or the values of the row
\* are still in the sheet.
C36_SelectedRowsNotDropped ==
    \A o \in Objects :
        Completed(o) =>
            /\ (last[o].create # <<>> /\ last[o].f.create = "fail") =>
                 \A k \in 1..Len(IdLessWithValue(o, last[o])) :
                     RowStillThere(o, IdLessWithValue(o, last[o])[k])
            /\ (last[o].update # <<>> /\ last[o].f.update = "fail") =>
                 \A k \in 1..Len(last[o].update) :
                     RowStillThere(o, KeptRow(last[o], PyStr(last[o].update[k]["id"])))


(***************************************************************************)
(* Two runs of sync_all under newest_wins, a cell of the sheet edited in   *)
(* between: the sheet starts empty, so that every updatedAt cell is one    *)
(* the engine wrote                                                        *)
(***************************************************************************)

InitEdit ==
    /\ strategy = "newest_wins"
    /\ crm \in [Objects -> UNION {CrmLists(o) : o \in Objects}]
    /\ \A o \in Objects : crm[o] \in CrmLists(o)
    /\ sheet = [o \in Objects |-> <<>>]
    /\ stateFile \in InitialStateFiles
    /\ state = stateFile
    /\ stats = <<>>
    /\ pc = "idle"
    /\ idx = 0
    /\ clock = MaxTime + 1
    /\ nextId = 3
    /\ last = [o \in Objects |-> NoPass]
    /\ args = NoArgs
    /\ winner = "unset"
    /\ again = FALSE
    /\ NoSchedule

\* what a user may type into a tracked cell
TypedCells(o, c) == (IF c = Col1(o) THEN Cells1(o) ELSE Cells2(o)) \cup {S("Zed")}

\* the remote record of that id, changed on the remote side at time now
Touched(records, rid, now) ==
    [j \in 1..Len(records) |->
        IF PyStr(records[j]["id"]) = rid
        THEN DictSet(DictSet(records[j], "position", IntV(5)), "updatedAt", IsoZ(now))
        ELSE records[j]]

\* between two runs a user edits one tracked cell of a row that has an id,
\* leaving its updatedAt cell alone; the record may change on the remote
\* side as well, which moves its marker forward
EditBetweenRuns ==
    /\ pc = "done"
    /\ ~again
    /\ args = NoArgs
    /\ \E o \in Objects :
         \E i \in 1..Len(sheet[o]) :
           \E c \in {Col1(o), Col2(o)} :
             \E v \in TypedCells(o, c) :
               \E touch \in BOOLEAN :
                 /\ Truthy(sheet[o][i]["id"])
                 /\ v # sheet[o][i][c]
                 /\ sheet' = [sheet EXCEPT ![o][i][c] = v]
                 /\ crm' = IF touch
                           THEN [crm EXCEPT ![o] = Touched(@, PyStr(sheet[o][i]["id"]), clock)]
                           ELSE crm
                 /\ clock' = IF touch THEN clock + 1 ELSE clock
                 /\ args' = [crm_rec |-> <<>>, xl_rec |-> <<>>, obj |-> o,
                             rid |-> PyStr(sheet[o][i]["id"]), touched |-> touch]
    /\ UNCHANGED <<strategy, state, stateFile, stats, pc, idx, nextId, last,
                   winner, again, sched>>

NextEdit == StartSyncAll \/ SyncObject \/ SaveState \/ EditBetweenRuns \/ StartAgain

SpecEdit == InitEdit /\ [][NextEdit]_vars

\* the second run classified the records of the object whose row was edited
EditedPass(o) ==
    /\ again
    /\ args # NoArgs
    /\ args.obj = o
    /\ DiffDone(last[o])

\* the index of the edited record in the remote snapshot of the pass, when
\* the pass found it to differ
EditedConflicts(o) ==
    {i \in ConflictingIn(o, last[o]) : PyStr(last[o].crm_records[i]["id"]) = args.rid}

\* C37: under newest_wins, with updatedAt cells that only the engine writes
\* and remote markers that never go back, every conflict on a record goes
\* to the remote side: an edit of tracked cells of an existing row is never
\* sent to the remote and the pass overwrites it.
C37_EditedCellsLoseUnderNewestWins ==
    \A o \in Objects :
        EditedPass(o) =>
            /\ Carrying(last[o].update, args.rid) = {}
            /\ EditedConflicts(o) # {} => Carrying(last[o].upsert, args.rid) # {}
            /\ Completed(o) => sheet[o] = write_excel(o, crm[o]).rows

\* the second run returned: the edited row was a conflict, went to the
\* sheet's batch, and the remote values are back in the sheet
C37_Witness ==
    /\ again
    /\ pc = "done"
    /\ args # NoArgs
    /\ ~args.touched
    /\ Completed(args.obj)
    /\ EditedConflicts(args.obj) # {}
    /\ last[args.obj].counters.conflicts = 1


(***************************************************************************)
(* push run twice in succession, nothing edited in between                 *)
(***************************************************************************)

\* push reads no strategy: one is enough
InitRepush == Init /\ strategy = "crm_wins"

\* the second push begins where the first returned; args keeps the passes
\* of the first
StartPushAgain ==
    /\ pc = "done"
    /\ ~again
    /\ pc' = "push"
    /\ idx' = 1
    /\ again' = TRUE
    /\ args' = [crm_rec |-> <<>>, xl_rec |-> <<>>, first |-> last]
    /\ last' = [o \in Objects |-> NoPass]
    /\ UNCHANGED <<strategy, crm, sheet, state, stateFile, stats, clock, nextId>>
    /\ UNCHANGED <<winner, sched>>

NextRepush ==
    \/ StartPush \/ PushObject \/ OpenStateFile \/ WriteStateFile
    \/ StartPushAgain

SpecRepush == InitRepush /\ [][NextRepush]_vars

\* the first push created rows of o on the remote side and wrote them back
CreatedInFirstPush(o) ==
    /\ again
    /\ args.first[o].create # <<>>
    /\ args.first[o].f.create = "ok"
    /\ args.first[o].error = "none"

\* C38: push run twice in succession with no edit in between creates
\* nothing the second time: a row without an id that the first push created
\* remotely is not created again.
C38_SecondPushCreatesNothing ==
    \A o \in Objects :
        (CreatedInFirstPush(o) /\ last[o].ran) => last[o].create = <<>>


(***************************************************************************)
(* Outbound payloads: sync and push with the tabular side winning          *)
(***************************************************************************)

InitOutbound == Init /\ strategy = "excel_wins"

NextOutbound ==
    \/ StartSyncAll \/ SyncObject \/ SaveState
    \/ StartPush \/ PushObject \/ OpenStateFile \/ WriteStateFile

SpecOutbound == InitOutbound /\ [][NextOutbound]_vars

\* the tracked fields of o whose cell in the row is not None
NonNullTracked(o, row) == {f \in Range(Fields(o)) : Get(row, f, NoneV).k # "none"}

\* the update batch of the pass reached the remote side
UpdateApplied(p) == p.update # <<>> /\ p.f.update = "ok" /\ Calls(p, "batch_update") # {}

\* the remote records carrying the id of the patch hold, after the pass, the
\* fetched value of every tracked field the patch leaves out
OmittedUnchanged(o, p, patch) ==
    \A j \in WithId(p.crm_records) :
        PyStr(p.crm_records[j]["id"]) = PyStr(patch["id"]) =>
            \A f \in Range(Fields(o)) \ DOMAIN patch :
                Get(crm[o][j], f, NoneV) = Get(p.crm_records[j], f, NoneV)

\* the patch holds the id and the non-null tracked cells of its row: the
\* row the lookup keeps in a sync pass, one of the rows with the id in a push
BuiltFromRow(o, p, patch) ==
    IF p.op = "sync"
    THEN DOMAIN patch =
            {"id"} \cup NonNullTracked(o, KeptRow(p, PyStr(patch["id"])))
    ELSE \E r \in RowsOf(p, PyStr(patch["id"])) :
            DOMAIN patch = {"id"} \cup NonNullTracked(o, p.excel_records[r])

\* C39: an outbound payload built from a tabular row holds exactly the
\* tracked fields whose cell is not null, plus the id for an update; an
\* empty cell is left out, so the remote value of that field stays as it
\* was when the update is applied, and neither updatedAt nor the row
\* position is ever sent.
C39_PayloadHoldsNonNullTrackedOnly ==
    \A o \in Objects :
        DiffDone(last[o]) =>
            /\ \A i \in 1..Len(last[o].update) :
                 /\ BuiltFromRow(o, last[o], last[o].update[i])
                 /\ (last[o].op = "sync" /\ UpdateApplied(last[o])) =>
                      OmittedUnchanged(o, last[o], last[o].update[i])
            /\ \A i \in 1..Len(last[o].create) :
                 /\ \E j \in 1..Len(IdLess(last[o])) :
                      DOMAIN last[o].create[i] = NonNullTracked(o, IdLess(last[o])[j])
                 /\ DOMAIN last[o].create[i] \cap {"id", "updatedAt", "_excel_row"} = {}

\* the tabular side won a conflict of a sync pass over a row with an empty
\* cell where the remote record holds a value, and the update was applied
C39_Witness ==
    \E o \in Objects :
        /\ DiffDone(last[o]) /\ last[o].op = "sync"
        /\ UpdateApplied(last[o])
        /\ \E i \in 1..Len(last[o].update) :
             \E f \in Range(Fields(o)) \ DOMAIN last[o].update[i] :
                /\ Truthy(Get(RemoteOf(last[o], PyStr(last[o].update[i]["id"])),
                              f, NoneV))
                /\ "_excel_row" \in DOMAIN KeptRow(last[o],
                                                   PyStr(last[o].update[i]["id"]))


(***************************************************************************)
(* Counter conservation, checked under SpecDiff on the classification of   *)
(* the two snapshots as given                                              *)
(***************************************************************************)

\* the two snapshots the classification was made from
Given == [crm_records |-> args.crm_records, excel_records |-> args.excel_records]

Classified == pc = "done" /\ winner.given.error = "none"

\* the remote records whose id no row carries
RemoteOnlyIn(p) == WithId(p.crm_records) \ InBoth(p)

\* the conflicting remote records that the resolver gives to one side
WonBy(side, o, p) ==
    {i \in ConflictingIn(o, p) :
        _resolve_conflict(strategy, p.crm_records[i],
                          KeptRow(p, PyStr(p.crm_records[i]["id"]))) = side}

\* every remote id is counted once, as remote-only or remote-won conflict
\* (crm_to_excel), as tabular-won conflict (excel_to_crm_updated) or as
\* unchanged
RemoteIdsCountedOnce(o, p, counters) ==
    /\ Cardinality(IdsOf(p.crm_records)) = Cardinality(WithId(p.crm_records))
    /\ counters.crm_to_excel
         = Cardinality(RemoteOnlyIn(p)) + Cardinality(WonBy("crm", o, p))
    /\ counters.excel_to_crm_updated = Cardinality(WonBy("excel", o, p))
    /\ counters.crm_to_excel + counters.excel_to_crm_updated
         = Cardinality(RemoteOnlyIn(p)) + Cardinality(ConflictingIn(o, p))
    /\ Cardinality(RemoteOnlyIn(p)) + Cardinality(ConflictingIn(o, p))
         + Cardinality(UnchangedIn(o, p)) = Cardinality(IdsOf(p.crm_records))

\* C40, as stated: in a sync pass every distinct remote id is counted exactly
\* once, so crm_to_excel + excel_to_crm_updated equals the number of
\* remote-only ids plus conflicts, and skipped equals the number of unchanged
\* ids plus the number of orphan tabular ids.
C40_CountersConserved ==
    Classified =>
        /\ RemoteIdsCountedOnce(args.obj, Given, winner.given.counters)
        /\ winner.given.counters.skipped
             = Cardinality(UnchangedIn(args.obj, Given))
               + Cardinality(OrphanIds(Given))

\* C40, amended: the same, skipped being the number of unchanged ids plus
\* the number of orphan tabular ids other than the text "None".
C40_CountersConservedButPlaceholder ==
    Classified =>
        /\ RemoteIdsCountedOnce(args.obj, Given, winner.given.counters)
        /\ winner.given.counters.skipped
             = Cardinality(UnchangedIn(args.obj, Given))
               + Cardinality(OrphanIds(Given) \ {S("None")})

\* a classification with a remote-only id, a conflict and a row whose id is
\* the text "None": the two remote ids are counted, the row is not
C40_Witness ==
    /\ Classified
    /\ RemoteOnlyIn(Given) # {}
    /\ ConflictingIn(args.obj, Given) # {}
    /\ OrphanIds(Given) = {S("None")}
    /\ winner.given.counters.crm_to_excel
         + winner.given.counters.excel_to_crm_updated = 2
    /\ winner.given.counters.skipped = 0

====
